---- MODULE Spec2Model ----
(***************************************************************************)
(* pad-tickler: CBC padding-oracle solver (solver.py: solve_message),      *)
(* the single-slot latest-wins state channel (state_queue.py) and the      *)
(* renderer loop / driver (ui.py: ui_loop, cli.py: solver).                *)
(*                                                                         *)
(* Blocks are functions over 0..block_size-1 and block lists functions     *)
(* over 0..block_count-1, so that every index is the index of the source.  *)
(***************************************************************************)
EXTENDS Integers, Sequences, FiniteSets, TLC

(* ------------------------------ bounds -------------------------------- *)

\* Longest ciphertext (in bytes) handed to solve_message.
MaxLen == 6

\* Longest ciphertext (in bytes) of the runs with a faulty oracle or a live renderer.
MaxLenEnv == 6

\* Block sizes of the runs (the keyword parameter block_size; default 16).
BlockSizes == {2, 3}

\* Byte values the ciphertext bytes are drawn from.
CipherSample == {0, 1}

\* Byte values the block cipher's decryption D(C_n) is drawn from.
DecryptSample == {1, 3}

\* The same two samples for the runs with a faulty oracle or a live renderer.
EnvCipherSample == {1}

EnvDecryptSample == {3}

(* ------------------------- program constants -------------------------- *)

\* range(256): the guesses of the inner loop.
GuessCount == 256

\* The unsolved sentinel of intermediate_blocks / plaintext_blocks (Python None).
None == -1

\* Optional values (a Python None or a value) are <<>> or <<v>>.
Nothing == << >>

Some(v) == << v >>

(* ------------------------------ state --------------------------------- *)

VARIABLES
    \* inputs and environment
    ciphertext,              \* the bytes handed to solve_message, indexed from 0
    block_size,              \* keyword parameter block_size
    dk,                      \* the secret: dk[n] = D(K, C_n), the true intermediate of block n
    scenario,                \* which submit function / environment the run has
    \* solve_message locals
    pc,
    ciphertext_blocks,
    ciphertext_prime_blocks,
    intermediate_blocks,
    plaintext_blocks,
    state_version,
    block_index_n,
    pad_length_k,
    byte_index_i,
    byte_value_g,
    found,
    exc,                     \* exception raised inside the try block ("none" when none)
    propagated,              \* exception that left solve_message ("none" when none)
    return_value,            \* what solve_message returned to its caller (Nothing: None)
    \* module globals of solver.py
    CURRENT_STEP,
    BYTES_FOUND,
    \* SingleSlotQueue
    has_value,
    value,
    closed,
    \* renderer / driver
    ui_pc,
    ui_state,                \* the snapshot ui_loop holds (Nothing when none)
    \* observation
    last_probe,              \* the most recent call of submit
    n_probes,                \* number of calls of submit so far
    n_published,             \* number of publish calls so far
    complete_published,      \* a snapshot with complete = True has been published
    n_close,                 \* number of close calls so far
    n_rejected,              \* number of hits the confirmation probe rejected so far
    pub_after_cancel,        \* a publish has happened after the renderer closed the channel
    \* SingleSlotQueue under one producer thread and one consumer thread
    lock,                    \* holder of the lock of self._condition
    p_pc,                    \* the producer's position
    p_item,                  \* the argument of the publish in progress
    c_pc,                    \* the consumer's position inside get
    c_timeout,               \* the get in progress was called with a timeout
    c_expired,               \* the timeout of the get in progress has run out
    c_waited,                \* the get in progress has waited on the condition
    c_result,                \* the outcome of the latest get
    published,               \* the items published so far, in publish order
    returned,                \* the outcomes of the gets so far, in order
    published_at_close,      \* number of items published when close first ran (-1: not yet)
    \* utils.strip_plaintext_padding
    strip_arg,               \* the argument plaintext, a sequence of bytes
    strip_result,            \* the returned bytes (Nothing before the call)
    \* models.cipher_bytes.CipherBlockSet
    cipher_blocks,           \* the blocks of the set, indexed from 0
    last_call,               \* the latest method call on the set, with its outcome
    \* core.broadcast_latest.BroadcastLatest and its Subscribers
    b_value,                 \* self._value (Nothing: None)
    b_version,               \* self._version
    b_closed,                \* self._closed
    sub_pc,                  \* each subscriber's position
    sub_timeout,             \* the next() in progress was called with a timeout
    sub_seen,                \* each subscriber's self._seen
    sub_result,              \* what each subscriber's latest next() returned
    sub_calls                \* number of next() calls each subscriber has made

vars == << ciphertext, block_size, dk, scenario, pc, ciphertext_blocks,
           ciphertext_prime_blocks, intermediate_blocks, plaintext_blocks,
           state_version, block_index_n, pad_length_k, byte_index_i, byte_value_g,
           found, exc, propagated, return_value, CURRENT_STEP, BYTES_FOUND,
           has_value, value, closed, ui_pc, ui_state, last_probe, n_probes,
           n_published, complete_published, n_close, n_rejected,
           pub_after_cancel, lock, p_pc, p_item, c_pc, c_timeout, c_expired,
           c_waited, c_result, published, returned, published_at_close,
           strip_arg, strip_result, cipher_blocks, last_call, b_value, b_version,
           b_closed, sub_pc, sub_timeout, sub_seen, sub_result, sub_calls >>

inputVars == << ciphertext, block_size, dk, scenario >>

solverData == << ciphertext_blocks, ciphertext_prime_blocks, intermediate_blocks,
                 plaintext_blocks >>

uiVars == << ui_pc, ui_state >>

chanVars == << lock, p_pc, p_item, c_pc, c_timeout, c_expired, c_waited, c_result,
               published, returned, published_at_close >>

postVars == << strip_arg, strip_result >>

blockSetVars == << cipher_blocks, last_call >>

broadcastVars == << b_value, b_version, b_closed, sub_pc, sub_timeout, sub_seen,
                   sub_result, sub_calls >>

libVars == << postVars, blockSetVars, broadcastVars >>

(* --------------------------- byte arithmetic -------------------------- *)

RECURSIVE Xor(_, _)
\* Python's ^ on two non-negative ints.
Xor(a, b) ==
    IF a = 0 THEN b
    ELSE IF b = 0 THEN a
    ELSE (((a % 2) + (b % 2)) % 2) + (2 * Xor(a \div 2, b \div 2))

(* ------------------------------ geometry ------------------------------ *)

Len0(f) == Cardinality(DOMAIN f)

\* len(ciphertext_blocks) of line 74-75: one block per started block_size bytes.
block_count == (Len0(ciphertext) + block_size - 1) \div block_size

Aligned == Len0(ciphertext) % block_size = 0

\* ciphertext[i:i + block_size] for i in range(0, len(ciphertext), block_size)
SplitBlocks(ct, bsz) ==
    [ b \in 0 .. ((Len0(ct) + bsz - 1) \div bsz) - 1 |->
        [ j \in 0 .. (IF Len0(ct) - b * bsz < bsz THEN Len0(ct) - b * bsz ELSE bsz) - 1 |->
            ct[b * bsz + j] ] ]

\* [[None for _ in range(block_size)] for _ in range(block_count)]
NoneBlocks(cnt, bsz) == [ b \in 0 .. cnt - 1 |-> [ j \in 0 .. bsz - 1 |-> None ] ]

EmptyFn == [ x \in {} |-> 0 ]

(* ------------------------------ the oracle ---------------------------- *)

\* D(K, target): the block cipher's decryption of a target block.  The key is
\* unknown; dk fixes D on the blocks of the message.
Decrypt(target) ==
    IF \E m \in DOMAIN dk : ciphertext_blocks[m] = target
    THEN dk[CHOOSE m \in DOMAIN dk : ciphertext_blocks[m] = target]
    ELSE [ j \in 0 .. block_size - 1 |-> 0 ]

\* The CBC plaintext of the two-block message prev || target.
CbcPlain(prev, target) ==
    [ j \in 0 .. block_size - 1 |-> Xor(Decrypt(target)[j], prev[j]) ]

\* PKCS#7: the last byte v is in 1..block_size and the last v bytes all equal v.
ValidPadding(p) ==
    LET v == p[block_size - 1]
    IN  /\ 1 <= v
        /\ v <= block_size
        /\ \A j \in block_size - v .. block_size - 1 : p[j] = v

\* The padding oracle's verdict on the probe (prev, target): the PKCS#7 check
\* of the demo service, without the UTF-8 decoding that follows it there (the
\* oracle of the claims is a pure PKCS#7 validator).
OracleValid(prev, target) == ValidPadding(CbcPlain(prev, target))

BoolReply(b) == IF b THEN "true" ELSE "false"

\* demo_guess.submit_guess: status 200 is True, another status False, and a
\* request that raised (connection failure, timeout) is caught and is False.
submit_guess(event, valid) ==
    IF event = "ok" THEN BoolReply(valid) ELSE "false"

\* What can happen to one call of submit in each scenario.
Events ==
    CASE scenario = "flaky"   -> {"ok", "failed", "timeout"}
      [] scenario = "raising" -> {"ok", "error"}
      [] OTHER                -> {"ok"}

\* The reply ("true", "false" or "raise") of the run's submit function.
Submit(event, prev, target) ==
    CASE scenario = "reject"  -> "false"
      [] scenario = "raising" -> IF event = "ok" THEN BoolReply(OracleValid(prev, target))
                                 ELSE "raise"
      [] OTHER                -> submit_guess(event, OracleValid(prev, target))

NoProbe == [ kind |-> "none", prev |-> EmptyFn, target |-> EmptyFn,
             event |-> "ok", reply |-> "false", n |-> 0, k |-> 0, g |-> 0 ]

Probe(kind, event, prev, target) ==
    [ kind |-> kind, prev |-> prev, target |-> target, event |-> event,
      reply |-> Submit(event, prev, target),
      n |-> block_index_n, k |-> pad_length_k, g |-> byte_value_g ]

(* ------------------------------ inputs -------------------------------- *)

Scenarios == {"solo", "reject", "flaky", "raising", "ui"}

Blocks(bsz, sample) == [ 0 .. bsz - 1 -> sample ]

\* The ciphertexts of at most maxlen bytes.
Ciphertexts(maxlen, sample) ==
    UNION { [ 0 .. len - 1 -> sample ] : len \in 0 .. maxlen }

\* The decryptions of the target blocks 1..N-1 of ct: a function of the block.
Decryptions(ct, bsz, sample) ==
    LET blocks == SplitBlocks(ct, bsz)
        cnt == Len0(blocks)
    IN  IF Len0(ct) % bsz # 0 \/ cnt < 2
        THEN { EmptyFn }
        ELSE { d \in [ 1 .. cnt - 1 -> Blocks(bsz, sample) ] :
                 \A a, b \in 1 .. cnt - 1 : blocks[a] = blocks[b] => d[a] = d[b] }

\* No get has returned yet.
NoResult == [ kind |-> "none", item |-> 0, closed |-> FALSE ]

\* The two threads are outside the queue's methods and nobody holds the lock.
ChanInit ==
    /\ lock = "none"
    /\ p_pc = "idle"
    /\ p_item = 0
    /\ c_pc = "idle"
    /\ c_timeout = FALSE
    /\ c_expired = FALSE
    /\ c_waited = FALSE
    /\ c_result = NoResult
    /\ published = << >>
    /\ returned = << >>
    /\ published_at_close = -1

\* No method of a CipherBlockSet has been called yet.
NoCall == [ n |-> 0, op |-> "none", start_block |-> 0, end_block |-> 0,
            color |-> "none", result |-> "none" ]

\* The subscribers a BroadcastLatest channel is given.
SubscriberIds == {1, 2}

\* No next() has returned yet.
NoNext == [ kind |-> "none", version |-> 0, item |-> "none" ]

\* BroadcastLatest.__init__, with nobody subscribed.
BroadcastInit ==
    /\ b_value = Nothing
    /\ b_version = 0
    /\ b_closed = FALSE
    /\ sub_pc = [ s \in SubscriberIds |-> "unsubscribed" ]
    /\ sub_timeout = [ s \in SubscriberIds |-> FALSE ]
    /\ sub_seen = [ s \in SubscriberIds |-> 0 ]
    /\ sub_result = [ s \in SubscriberIds |-> NoNext ]
    /\ sub_calls = [ s \in SubscriberIds |-> 0 ]

\* Neither the plaintext post-processing nor a CipherBlockSet is in use.
LibInit ==
    /\ strip_arg = << >>
    /\ strip_result = Nothing
    /\ cipher_blocks = << >>
    /\ last_call = NoCall
    /\ BroadcastInit

Init ==
    /\ scenario \in Scenarios
    /\ block_size \in BlockSizes
    /\ ciphertext \in IF scenario = "solo" THEN Ciphertexts(MaxLen, CipherSample)
                      ELSE Ciphertexts(MaxLenEnv, EnvCipherSample)
    /\ dk \in Decryptions(ciphertext, block_size,
                          IF scenario = "solo" THEN DecryptSample ELSE EnvDecryptSample)
    /\ pc = "entry"
    /\ ciphertext_blocks = EmptyFn
    /\ ciphertext_prime_blocks = EmptyFn
    /\ intermediate_blocks = EmptyFn
    /\ plaintext_blocks = EmptyFn
    /\ state_version = 0
    /\ block_index_n = 0
    /\ pad_length_k = 0
    /\ byte_index_i = 0
    /\ byte_value_g = 0
    /\ found = FALSE
    /\ exc = "none"
    /\ propagated = "none"
    /\ return_value = Nothing
    /\ CURRENT_STEP = 0
    /\ BYTES_FOUND = 0
    /\ has_value = FALSE
    /\ value = Nothing
    /\ closed = FALSE
    /\ ui_pc = "get"
    /\ ui_state = Nothing
    /\ last_probe = NoProbe
    /\ n_probes = 0
    /\ n_published = 0
    /\ complete_published = FALSE
    /\ n_close = 0
    /\ n_rejected = 0
    /\ pub_after_cancel = FALSE
    /\ ChanInit
    /\ LibInit

(* ------------------------- SingleSlotQueue ---------------------------- *)

\* A publish that keeps an unread value and drops the new one.
PublishKeepsOldest(item) ==
    /\ value' = IF has_value THEN value ELSE Some(item)
    /\ has_value' = TRUE
    /\ UNCHANGED closed

\* A publish that waits until the consumer has emptied the slot.
PublishWaitsForEmptySlot(item) ==
    /\ ~has_value
    /\ value' = Some(item)
    /\ has_value' = TRUE
    /\ UNCHANGED closed

\* SingleSlotQueue.publish: overwrite the slot, whatever the state of the channel.
publish(item) ==
    /\ value' = Some(item)
    /\ has_value' = TRUE
    /\ UNCHANGED closed

\* SingleSlotQueue.close
close ==
    /\ closed' = TRUE
    /\ UNCHANGED << has_value, value >>

\* The renderer side has closed the channel (KeyboardInterrupt in cli.solver).
Cancelled == ui_pc = "interrupted"

\* publish as the solver calls it, with the observation counters.
SolverPublish(item) ==
    /\ publish(item)
    /\ n_published' = n_published + 1
    /\ complete_published' = (complete_published \/ item.complete)
    /\ pub_after_cancel' = (pub_after_cancel \/ Cancelled)

NoPublish ==
    UNCHANGED << has_value, value, closed, n_published, complete_published,
                 pub_after_cancel >>

(* ------------------------------ solver -------------------------------- *)

\* A snapshot that carries no running version.
UnversionedSnapshot(ver, complete, n, i, g, k, cprime) ==
    [ state_version    |-> 0,
      complete         |-> complete,
      block_count      |-> block_count - 1,
      block_size       |-> block_size,
      block_index_n    |-> n,
      byte_index_i     |-> i,
      byte_value_g     |-> g,
      pad_length_k     |-> k,
      ciphertext_prime |-> cprime ]

\* StateSnapshot(...) as solve_message builds it: ciphertext_prime is copied
\* (tuple of tuples); intermediate and plaintext are the solver's own lists,
\* passed by reference, so a snapshot carries no copy of them.
StateSnapshot(ver, complete, n, i, g, k, cprime) ==
    [ state_version    |-> ver,
      complete         |-> complete,
      block_count      |-> block_count - 1,
      block_size       |-> block_size,
      block_index_n    |-> n,
      byte_index_i     |-> i,
      byte_value_g     |-> g,
      pad_length_k     |-> k,
      ciphertext_prime |-> cprime ]

\* A skip that is not restricted to pad width 1.
SkipsAtEveryWidth(k, g, original_byte_value) == g = original_byte_value

\* The skip of the inner loop: skip_trivial_original and pad_length_k == 1 and
\* byte_value_g == original_byte_value.
SkipGuess(k, g, original_byte_value) == k = 1 /\ g = original_byte_value

\* A flip index that wraps around like a negative Python index.
FlipIndexWraps(bsz, k) == (bsz - k - 1) % bsz

\* _confirm_hit: flip_idx = bsz - k - 1
FlipIndex(bsz, k) == bsz - k - 1

\* A confirmation block that flips every byte from flip_idx on, tail included.
FlippedFromIndexOn(cprev_prime, flip_idx) ==
    [ j \in DOMAIN cprev_prime |->
        IF j >= flip_idx THEN Xor(cprev_prime[j], 1) ELSE cprev_prime[j] ]

\* _confirm_hit: c2 = cprev_prime[:]; c2[flip_idx] ^= 0x01
FlippedBlock(cprev_prime, flip_idx) ==
    [ cprev_prime EXCEPT ![flip_idx] = Xor(cprev_prime[flip_idx], 1) ]

\* A _confirm_hit that accepts every hit without the second probe.
AcceptsEveryHit(bsz, k) == FALSE

\* _confirm_hit needs a second probe unless flip_idx < 0.
NeedsConfirmProbe(bsz, k) == FlipIndex(bsz, k) >= 0

\* intermediate_n[byte_index_i] = byte_value_g ^ pad_length_k
SolvedIntermediate(g, k) == Xor(g, k)

\* A plaintext byte computed from the working copy of the previous block.
PlaintextFromWorkingCopy(n, i, ibyte) == Xor(ciphertext_prime_blocks[n - 1][i], ibyte)

\* plaintext_blocks[n][i] = prev_block[i] ^ intermediate_n[i], prev_block the
\* original ciphertext_blocks[n - 1].
SolvedPlaintext(n, i, ibyte) == Xor(ciphertext_blocks[n - 1][i], ibyte)

\* A tail rewrite that programs the tail for the previous pad width.
RewriteTailForPreviousWidth(cprime, inter, k) ==
    [ j \in DOMAIN cprime |->
        IF j >= block_size - (k - 1) /\ inter[j] # None
        THEN Xor(inter[j], k - 1)
        ELSE cprime[j] ]

\* The tail rewrite of pad width k on the working previous block.
RewriteTail(cprime, inter, k) ==
    [ j \in DOMAIN cprime |->
        IF j >= block_size - (k - 1) /\ inter[j] # None
        THEN Xor(inter[j], k)
        ELSE cprime[j] ]

\* A block loop that ends after the first target block.
AfterByteEndsAtFirstBlock(n, k) ==
    IF k < block_size THEN "tail" ELSE "final"

\* Where the solver goes after the byte of pad width k of block n is recorded.
AfterByte(n, k) ==
    IF k < block_size THEN "tail"
    ELSE IF n < block_count - 1 THEN "block" ELSE "final"

\* A raise inside the try block: control goes to the except clause.
Raise(e) ==
    /\ exc' = e
    /\ pc' = "except"

\* A block loop that starts at the IV.
FirstTargetIsIV(cnt) == IF cnt >= 2 THEN 0 ELSE 0

\* Line 90: enumerate(ciphertext_blocks[1:], start=1) skips the IV; the first
\* target is block 1, and with no target block the loop variable stays
\* unbound (0 here).
FirstTarget(cnt) == IF cnt >= 2 THEN 1 ELSE 0

\* Lines 70-87: the alignment assert and the allocation of the block lists.
SolverEntry ==
    /\ pc = "entry"
    /\ IF ~Aligned
       THEN /\ Raise("AssertionError")
            /\ UNCHANGED << solverData, state_version, block_index_n, CURRENT_STEP,
                            BYTES_FOUND >>
       ELSE /\ ciphertext_blocks' = SplitBlocks(ciphertext, block_size)
            /\ ciphertext_prime_blocks' = SplitBlocks(ciphertext, block_size)
            /\ intermediate_blocks' = NoneBlocks(block_count, block_size)
            /\ plaintext_blocks' = NoneBlocks(block_count, block_size)
            /\ CURRENT_STEP' = 0
            /\ BYTES_FOUND' = 0
            /\ state_version' = 0
            /\ block_index_n' = FirstTarget(block_count)
            /\ pc' = IF block_count >= 2 THEN "block" ELSE "final"
            /\ UNCHANGED exc
    /\ NoPublish
    /\ UNCHANGED << inputVars, chanVars, libVars, uiVars, pad_length_k, byte_index_i, byte_value_g, found,
                    propagated, return_value, last_probe, n_probes, n_close, n_rejected >>

\* Lines 90-135: the head of the block loop and the first snapshot of the block.
SolverBeginBlock ==
    /\ pc = "block"
    /\ byte_value_g' = 0
    /\ pad_length_k' = 1
    /\ state_version' = state_version + 1
    /\ SolverPublish(StateSnapshot(state_version + 1, FALSE, block_index_n,
                                   block_size - 1, 0, 1, ciphertext_prime_blocks))
    /\ pc' = "orig"
    /\ UNCHANGED << inputVars, chanVars, libVars, uiVars, solverData, block_index_n, byte_index_i, found,
                    exc, propagated, return_value, CURRENT_STEP, BYTES_FOUND,
                    last_probe, n_probes, n_close, n_rejected >>

\* A probe of the original pair whose reply decides how the run goes on: a
\* pair the oracle rejects ends the run.
SolverOrigProbeUsesReply ==
    /\ pc = "orig"
    /\ \E ev \in Events :
         LET p == Probe("orig", ev, ciphertext_prime_blocks[block_index_n - 1],
                        ciphertext_blocks[block_index_n])
         IN  /\ last_probe' = p
             /\ n_probes' = n_probes + 1
             /\ CASE p.reply = "raise" -> Raise("OracleError")
                  [] p.reply = "false" -> Raise("RuntimeError")
                  [] OTHER -> /\ pc' = "tail"
                              /\ UNCHANGED exc
    /\ NoPublish
    /\ UNCHANGED << inputVars, chanVars, libVars, uiVars, solverData, state_version, block_index_n,
                    pad_length_k, byte_index_i, byte_value_g, found, propagated,
                    return_value, CURRENT_STEP, BYTES_FOUND, n_close, n_rejected >>

\* Line 138: the probe of the original pair; its reply is not used.
SolverOrigProbe ==
    /\ pc = "orig"
    /\ \E ev \in Events :
         LET p == Probe("orig", ev, ciphertext_prime_blocks[block_index_n - 1],
                        ciphertext_blocks[block_index_n])
         IN  /\ last_probe' = p
             /\ n_probes' = n_probes + 1
             /\ IF p.reply = "raise"
                THEN Raise("OracleError")
                ELSE /\ pc' = "tail"
                     /\ UNCHANGED exc
    /\ NoPublish
    /\ UNCHANGED << inputVars, chanVars, libVars, uiVars, solverData, state_version, block_index_n,
                    pad_length_k, byte_index_i, byte_value_g, found, propagated,
                    return_value, CURRENT_STEP, BYTES_FOUND, n_close, n_rejected >>

\* A target byte index that runs from the left end of the block.
TargetIndexLeftToRight(bsz, k) == k - 1

\* Line 158: byte_index_i = block_size - pad_length_k
TargetIndex(bsz, k) == bsz - k

\* Lines 147-159: program the solved tail for pad width k, start the guess loop.
SolverPrepTail ==
    /\ pc = "tail"
    /\ ciphertext_prime_blocks' =
         [ ciphertext_prime_blocks EXCEPT ![block_index_n - 1] =
             RewriteTail(@, intermediate_blocks[block_index_n], pad_length_k) ]
    /\ byte_index_i' = TargetIndex(block_size, pad_length_k)
    /\ found' = FALSE
    /\ byte_value_g' = 0
    /\ pc' = "guess"
    /\ NoPublish
    /\ UNCHANGED << inputVars, chanVars, libVars, uiVars, ciphertext_blocks, intermediate_blocks,
                    plaintext_blocks, state_version, block_index_n, pad_length_k, exc,
                    propagated, return_value, CURRENT_STEP, BYTES_FOUND, last_probe,
                    n_probes, n_close, n_rejected >>

\* A guess pass that publishes the snapshot before it writes the guess into
\* the working previous block.
SolverGuessPublishesFirst ==
    /\ pc = "guess"
    /\ byte_value_g < GuessCount
    /\ CURRENT_STEP' = CURRENT_STEP + 1
    /\ LET original_byte_value == ciphertext_prime_blocks[block_index_n - 1][byte_index_i]
       IN  IF SkipGuess(pad_length_k, byte_value_g, original_byte_value)
           THEN /\ byte_value_g' = byte_value_g + 1
                /\ NoPublish
                /\ UNCHANGED << ciphertext_prime_blocks, state_version, pc >>
           ELSE /\ ciphertext_prime_blocks' =
                     [ ciphertext_prime_blocks EXCEPT
                         ![block_index_n - 1][byte_index_i] = byte_value_g ]
                /\ state_version' = state_version + 1
                /\ SolverPublish(StateSnapshot(state_version + 1, FALSE,
                                               block_index_n, byte_index_i,
                                               byte_value_g, pad_length_k,
                                               ciphertext_prime_blocks))
                /\ pc' = "probe"
                /\ UNCHANGED byte_value_g
    /\ UNCHANGED << inputVars, chanVars, libVars, uiVars, ciphertext_blocks, intermediate_blocks,
                    plaintext_blocks, block_index_n, pad_length_k, byte_index_i, found,
                    exc, propagated, return_value, BYTES_FOUND, last_probe, n_probes,
                    n_close, n_rejected >>

\* A guess pass that writes the guess into the working copy of the target
\* block as well as into that of the previous block.
SolverGuessWritesNextCopy ==
    /\ pc = "guess"
    /\ byte_value_g < GuessCount
    /\ CURRENT_STEP' = CURRENT_STEP + 1
    /\ LET original_byte_value == ciphertext_prime_blocks[block_index_n - 1][byte_index_i]
       IN  IF SkipGuess(pad_length_k, byte_value_g, original_byte_value)
           THEN /\ byte_value_g' = byte_value_g + 1
                /\ NoPublish
                /\ UNCHANGED << ciphertext_prime_blocks, state_version, pc >>
           ELSE LET cprime == [ ciphertext_prime_blocks EXCEPT
                                  ![block_index_n - 1][byte_index_i] = byte_value_g,
                                  ![block_index_n][byte_index_i] = byte_value_g ]
                IN  /\ ciphertext_prime_blocks' = cprime
                    /\ state_version' = state_version + 1
                    /\ SolverPublish(StateSnapshot(state_version + 1, FALSE,
                                                   block_index_n, byte_index_i,
                                                   byte_value_g, pad_length_k, cprime))
                    /\ pc' = "probe"
                    /\ UNCHANGED byte_value_g
    /\ UNCHANGED << inputVars, chanVars, libVars, uiVars, ciphertext_blocks, intermediate_blocks,
                    plaintext_blocks, block_index_n, pad_length_k, byte_index_i, found,
                    exc, propagated, return_value, BYTES_FOUND, last_probe, n_probes,
                    n_close, n_rejected >>

\* Lines 160-185: one pass of the guess loop up to the publish.
SolverGuess ==
    /\ pc = "guess"
    /\ byte_value_g < GuessCount
    /\ CURRENT_STEP' = CURRENT_STEP + 1
    /\ LET original_byte_value == ciphertext_prime_blocks[block_index_n - 1][byte_index_i]
       IN  IF SkipGuess(pad_length_k, byte_value_g, original_byte_value)
           THEN /\ byte_value_g' = byte_value_g + 1
                /\ NoPublish
                /\ UNCHANGED << ciphertext_prime_blocks, state_version, pc >>
           ELSE LET cprime == [ ciphertext_prime_blocks EXCEPT
                                  ![block_index_n - 1][byte_index_i] = byte_value_g ]
                IN  /\ ciphertext_prime_blocks' = cprime
                    /\ state_version' = state_version + 1
                    /\ SolverPublish(StateSnapshot(state_version + 1, FALSE,
                                                   block_index_n, byte_index_i,
                                                   byte_value_g, pad_length_k, cprime))
                    /\ pc' = "probe"
                    /\ UNCHANGED byte_value_g
    /\ UNCHANGED << inputVars, chanVars, libVars, uiVars, ciphertext_blocks, intermediate_blocks,
                    plaintext_blocks, block_index_n, pad_length_k, byte_index_i, found,
                    exc, propagated, return_value, BYTES_FOUND, last_probe, n_probes,
                    n_close, n_rejected >>

\* A guess loop that runs out and goes on with the next pad width, no raise.
ExhaustedGoesOn ==
    /\ pc = "guess"
    /\ byte_value_g = GuessCount
    /\ ~found
    /\ pc' = AfterByte(block_index_n, pad_length_k)
    /\ pad_length_k' = IF pad_length_k < block_size THEN pad_length_k + 1
                       ELSE pad_length_k
    /\ block_index_n' = IF AfterByte(block_index_n, pad_length_k) = "block"
                        THEN block_index_n + 1 ELSE block_index_n
    /\ NoPublish
    /\ UNCHANGED << inputVars, chanVars, libVars, uiVars, solverData, state_version, byte_index_i,
                    byte_value_g, found, exc, propagated, return_value, CURRENT_STEP,
                    BYTES_FOUND, last_probe, n_probes, n_close, n_rejected >>

\* Lines 217-218: the guess loop ran out without a confirmed hit.
SolverExhausted ==
    /\ pc = "guess"
    /\ byte_value_g = GuessCount
    /\ ~found
    /\ Raise("RuntimeError")
    /\ NoPublish
    /\ UNCHANGED << inputVars, chanVars, libVars, uiVars, solverData, state_version, block_index_n,
                    pad_length_k, byte_index_i, byte_value_g, found, propagated,
                    return_value, CURRENT_STEP, BYTES_FOUND, last_probe, n_probes,
                    n_close, n_rejected >>

\* A primary probe whose exception is caught and taken for a False reply.
ProbeCatchesRaise ==
    /\ pc = "probe"
    /\ \E ev \in Events :
         LET p == Probe("primary", ev, ciphertext_prime_blocks[block_index_n - 1],
                        ciphertext_blocks[block_index_n])
         IN  /\ last_probe' = p
             /\ n_probes' = n_probes + 1
             /\ IF p.reply = "true"
                THEN /\ pc' = "confirm"
                     /\ UNCHANGED << exc, byte_value_g >>
                ELSE /\ byte_value_g' = byte_value_g + 1
                     /\ pc' = "guess"
                     /\ UNCHANGED exc
    /\ NoPublish
    /\ UNCHANGED << inputVars, chanVars, libVars, uiVars, solverData, state_version, block_index_n,
                    pad_length_k, byte_index_i, found, propagated, return_value,
                    CURRENT_STEP, BYTES_FOUND, n_close, n_rejected >>

\* Lines 187-192: the primary probe of the guess.
SolverProbe ==
    /\ pc = "probe"
    /\ \E ev \in Events :
         LET p == Probe("primary", ev, ciphertext_prime_blocks[block_index_n - 1],
                        ciphertext_blocks[block_index_n])
         IN  /\ last_probe' = p
             /\ n_probes' = n_probes + 1
             /\ CASE p.reply = "raise" ->
                      /\ Raise("OracleError")
                      /\ UNCHANGED byte_value_g
                  [] p.reply = "false" ->
                      /\ byte_value_g' = byte_value_g + 1
                      /\ pc' = "guess"
                      /\ UNCHANGED exc
                  [] OTHER ->
                      /\ pc' = "confirm"
                      /\ UNCHANGED << exc, byte_value_g >>
    /\ NoPublish
    /\ UNCHANGED << inputVars, chanVars, libVars, uiVars, solverData, state_version, block_index_n,
                    pad_length_k, byte_index_i, found, propagated, return_value,
                    CURRENT_STEP, BYTES_FOUND, n_close, n_rejected >>

\* Lines 197-209: the hit is confirmed; record the byte and leave the guess loop.
RecordByte ==
    LET ibyte == SolvedIntermediate(byte_value_g, pad_length_k)
    IN  /\ intermediate_blocks' =
              [ intermediate_blocks EXCEPT ![block_index_n][byte_index_i] = ibyte ]
        /\ plaintext_blocks' =
              [ plaintext_blocks EXCEPT ![block_index_n][byte_index_i] =
                  SolvedPlaintext(block_index_n, byte_index_i, ibyte) ]
        /\ found' = TRUE
        /\ BYTES_FOUND' = BYTES_FOUND + 1
        /\ pc' = AfterByte(block_index_n, pad_length_k)
        /\ pad_length_k' = IF pad_length_k < block_size THEN pad_length_k + 1
                           ELSE pad_length_k
        /\ block_index_n' = IF AfterByte(block_index_n, pad_length_k) = "block"
                            THEN block_index_n + 1 ELSE block_index_n
        /\ UNCHANGED << exc, byte_value_g, n_rejected >>

\* A rejected hit that is recorded all the same.
RecordsRejectedHit == RecordByte

\* A rejected hit that throws away what has been solved so far.
RejectHitForgetsSolved ==
    /\ byte_value_g' = byte_value_g + 1
    /\ n_rejected' = n_rejected + 1
    /\ pc' = "guess"
    /\ intermediate_blocks' = NoneBlocks(block_count, block_size)
    /\ plaintext_blocks' = NoneBlocks(block_count, block_size)
    /\ UNCHANGED << exc, found, BYTES_FOUND, pad_length_k, block_index_n >>

\* Lines 210-215: the hit is not confirmed; go on with the next guess.
RejectHit ==
    /\ byte_value_g' = byte_value_g + 1
    /\ n_rejected' = n_rejected + 1
    /\ pc' = "guess"
    /\ UNCHANGED << exc, intermediate_blocks, plaintext_blocks, found, BYTES_FOUND,
                    pad_length_k, block_index_n >>

\* Lines 195-215 with _confirm_hit (lines 37-52).
SolverConfirm ==
    /\ pc = "confirm"
    /\ IF ~NeedsConfirmProbe(block_size, pad_length_k)
       THEN /\ RecordByte
            /\ UNCHANGED << last_probe, n_probes >>
       ELSE \E ev \in Events :
              LET c2 == FlippedBlock(ciphertext_prime_blocks[block_index_n - 1],
                                     FlipIndex(block_size, pad_length_k))
                  p == Probe("confirm", ev, c2, ciphertext_blocks[block_index_n])
              IN  /\ last_probe' = p
                  /\ n_probes' = n_probes + 1
                  /\ CASE p.reply = "raise" ->
                           /\ Raise("OracleError")
                           /\ UNCHANGED << byte_value_g, intermediate_blocks,
                                           plaintext_blocks, found, BYTES_FOUND,
                                           pad_length_k, block_index_n, n_rejected >>
                       [] p.reply = "true" -> RecordByte
                       [] OTHER -> RejectHit
    /\ NoPublish
    /\ UNCHANGED << inputVars, chanVars, libVars, uiVars, ciphertext_blocks, ciphertext_prime_blocks,
                    state_version, byte_index_i, propagated, return_value,
                    CURRENT_STEP, n_close >>

\* Lines 231-246: the final snapshot.  With no target block the loop variable
\* block_index_n was never bound and building the snapshot raises.
SolverFinal ==
    /\ pc = "final"
    /\ IF block_index_n = 0
       THEN /\ Raise("UnboundLocalError")
            /\ NoPublish
            /\ UNCHANGED state_version
       ELSE /\ state_version' = state_version + 1
            /\ SolverPublish(StateSnapshot(state_version + 1, TRUE, block_index_n,
                                           byte_index_i, byte_value_g, pad_length_k,
                                           ciphertext_prime_blocks))
            /\ pc' = "finally"
            /\ UNCHANGED exc
    /\ UNCHANGED << inputVars, chanVars, libVars, uiVars, solverData, block_index_n, pad_length_k,
                    byte_index_i, byte_value_g, found, propagated, return_value,
                    CURRENT_STEP, BYTES_FOUND, last_probe, n_probes, n_close, n_rejected >>

\* Lines 248-251: except Exception prints the error and the traceback, no re-raise.
SolverExcept ==
    /\ pc = "except"
    /\ pc' = "finally"
    /\ NoPublish
    /\ UNCHANGED << inputVars, chanVars, libVars, uiVars, solverData, state_version, block_index_n,
                    pad_length_k, byte_index_i, byte_value_g, found, exc, propagated,
                    return_value, CURRENT_STEP, BYTES_FOUND, last_probe, n_probes,
                    n_close, n_rejected >>

\* A close at the end of the try block instead of in a finally clause: the
\* queue is closed on the success path only.
FinallyClosesOnSuccessOnly ==
    /\ pc = "finally"
    /\ IF exc = "none"
       THEN /\ close
            /\ n_close' = n_close + 1
       ELSE UNCHANGED << has_value, value, closed, n_close >>
    /\ return_value' = Nothing
    /\ propagated' = "none"
    /\ pc' = "done"
    /\ UNCHANGED << inputVars, chanVars, libVars, uiVars, solverData, state_version, block_index_n,
                    pad_length_k, byte_index_i, byte_value_g, found, exc,
                    CURRENT_STEP, BYTES_FOUND, last_probe, n_probes, n_published,
                    complete_published, n_rejected, pub_after_cancel >>

\* Lines 252-254: the finally clause closes the queue; the function then falls
\* off its end, which returns None, with no exception left to propagate.
SolverFinally ==
    /\ pc = "finally"
    /\ close
    /\ n_close' = n_close + 1
    /\ return_value' = Nothing
    /\ propagated' = "none"
    /\ pc' = "done"
    /\ UNCHANGED << inputVars, chanVars, libVars, uiVars, solverData, state_version, block_index_n,
                    pad_length_k, byte_index_i, byte_value_g, found, exc,
                    CURRENT_STEP, BYTES_FOUND, last_probe, n_probes, n_published,
                    complete_published, n_rejected, pub_after_cancel >>

\* solve_message has returned.
Done == pc = "done"

\* One step of the thread that runs solve_message.
SolverStep ==
    \/ SolverEntry
    \/ SolverBeginBlock
    \/ SolverOrigProbe
    \/ SolverPrepTail
    \/ SolverGuess
    \/ SolverExhausted
    \/ SolverProbe
    \/ SolverConfirm
    \/ SolverFinal
    \/ SolverExcept
    \/ SolverFinally

(* --------------------------- renderer, driver ------------------------- *)

solverVars == << pc, solverData, state_version, block_index_n, pad_length_k,
                 byte_index_i, byte_value_g, found, exc, propagated, return_value,
                 CURRENT_STEP, BYTES_FOUND, last_probe, n_probes, n_published,
                 complete_published, n_rejected, pub_after_cancel >>

\* A get that waits for a value and does not wake for a close.
UiGetWaitsForValueOnly ==
    /\ scenario = "ui"
    /\ ui_pc = "get"
    /\ has_value
    /\ ui_state' = value
    /\ value' = Nothing
    /\ has_value' = FALSE
    /\ ui_pc' = "render"
    /\ UNCHANGED << inputVars, chanVars, libVars, solverVars, closed, n_close >>

\* SingleSlotQueue.get() as ui_loop calls it (no timeout): wait until the slot
\* is full or the queue is closed; None when closed and empty, else take the value.
UiGet ==
    /\ scenario = "ui"
    /\ ui_pc = "get"
    /\ has_value \/ closed
    /\ IF closed /\ ~has_value
       THEN /\ ui_state' = Nothing
            /\ ui_pc' = "exited"
            /\ UNCHANGED << has_value, value >>
       ELSE /\ ui_state' = value
            /\ value' = Nothing
            /\ has_value' = FALSE
            /\ ui_pc' = "render"
    /\ UNCHANGED << inputVars, chanVars, libVars, solverVars, closed, n_close >>

\* live.update(render(state))
UiRender ==
    /\ scenario = "ui"
    /\ ui_pc = "render"
    /\ ui_pc' = "get"
    /\ UNCHANGED << inputVars, chanVars, libVars, solverVars, has_value, value, closed, ui_state, n_close >>

\* render (or live.update) raises while handling the snapshot: ui_loop has no
\* handler, and cli.solver catches KeyboardInterrupt only, so the exception
\* leaves ui_loop and the try statement of the driver.
UiRenderFails ==
    /\ scenario = "ui"
    /\ ui_pc = "render"
    /\ ui_pc' = "crashed"
    /\ UNCHANGED << inputVars, chanVars, libVars, solverVars, has_value, value, closed, ui_state, n_close >>

\* How cli.solver ends: an exception that left ui_loop leaves the with block
\* once the executor has joined the solver thread, and reaches the caller;
\* otherwise the driver goes on to future.result() (line 39).
DriverOutcome ==
    IF ~Done THEN "running"
    ELSE IF ui_pc = "crashed" THEN "renderer_error"
    ELSE IF ui_pc \in {"exited", "interrupted"} THEN "solver_result"
    ELSE "running"

\* What render reads from the snapshot s it was handed: s.ciphertext_prime is
\* the snapshot's own tuple; s.intermediate and s.plaintext are the lists of
\* the solver (inter, plain: their contents at the time of the read).
RenderedView(s, inter, plain) ==
    [ ciphertext_prime |-> s.ciphertext_prime,
      intermediate     |-> inter,
      plaintext        |-> plain ]

\* cli.solver: KeyboardInterrupt inside ui_loop, then state_queue.close().
UiInterrupt ==
    /\ scenario = "ui"
    /\ ui_pc \in {"get", "render"}
    /\ close
    /\ n_close' = n_close + 1
    /\ ui_pc' = "interrupted"
    /\ UNCHANGED << inputVars, chanVars, libVars, solverVars, ui_state >>

(* ------------- SingleSlotQueue: one producer, one consumer ------------ *)

\* Most publish calls, close calls and get calls of one run of the two threads.
MaxPublish == 3

MaxClose == 2

MaxGet == 4

driverVars == << inputVars, solverVars, uiVars >>

\* with self._condition: the calling thread takes the lock when it is free.
Acquire(thread) ==
    /\ lock = "none"
    /\ lock' = thread

\* Leaving the with block releases the lock.
Release == lock' = "none"

\* A notify that wakes nobody: the waiting consumer sleeps on.
NotifyNothing == UNCHANGED c_pc

\* self._condition.notify() / notify_all(): a consumer waiting on the
\* condition is woken; it has to take the lock again before it goes on.
notify == c_pc' = IF c_pc = "waiting" THEN "woken" ELSE c_pc

\* The predicate of wait_for: self._has_value or self._closed.
GetPredicate == has_value \/ closed

\* The producer thread calls publish(item) and enters its with block.  The
\* items are numbered 1, 2, ... in publish order.
ProducerCallsPublish ==
    /\ p_pc = "idle"
    /\ Len(published) < MaxPublish
    /\ Acquire("producer")
    /\ p_pc' = "publish"
    /\ p_item' = Len(published) + 1
    /\ UNCHANGED << driverVars, libVars, has_value, value, closed, n_close, c_pc, c_timeout,
                    c_expired, c_waited, c_result, published, returned,
                    published_at_close >>

\* Lines 20-22: the body of publish, then the lock is released.
ProducerPublishes ==
    /\ p_pc = "publish"
    /\ publish(p_item)
    /\ notify
    /\ Release
    /\ p_pc' = "idle"
    /\ published' = Append(published, p_item)
    /\ UNCHANGED << driverVars, libVars, n_close, p_item, c_timeout, c_expired, c_waited,
                    c_result, returned, published_at_close >>

\* The producer thread calls close() and enters its with block.
ProducerCallsClose ==
    /\ p_pc = "idle"
    /\ n_close < MaxClose
    /\ Acquire("producer")
    /\ p_pc' = "close"
    /\ UNCHANGED << driverVars, libVars, has_value, value, closed, n_close, p_item, c_pc,
                    c_timeout, c_expired, c_waited, c_result, published, returned,
                    published_at_close >>

\* Lines 27-28: the body of close, then the lock is released.
ProducerCloses ==
    /\ p_pc = "close"
    /\ close
    /\ notify
    /\ Release
    /\ p_pc' = "idle"
    /\ n_close' = n_close + 1
    /\ published_at_close' = IF closed THEN published_at_close ELSE Len(published)
    /\ UNCHANGED << driverVars, libVars, p_item, c_timeout, c_expired, c_waited, c_result,
                    published, returned >>

\* The consumer thread calls get() or get(timeout) and enters its with block.
ConsumerCallsGet ==
    /\ c_pc = "idle"
    /\ Len(returned) < MaxGet
    /\ Acquire("consumer")
    /\ c_pc' = "locked"
    /\ c_timeout' \in BOOLEAN
    /\ c_expired' = FALSE
    /\ c_waited' = FALSE
    /\ UNCHANGED << driverVars, libVars, has_value, value, closed, n_close, p_pc, p_item,
                    c_result, published, returned, published_at_close >>

\* A get that answers the closed sentinel whenever the queue is closed.
GetReturnsClosedFirst ==
    IF closed
    THEN /\ c_result' = [ kind |-> "closed", item |-> 0, closed |-> closed ]
         /\ UNCHANGED << has_value, value >>
    ELSE /\ c_result' = [ kind |-> "value", item |-> value[1], closed |-> closed ]
         /\ value' = Nothing
         /\ has_value' = FALSE

\* A get that hands out the value and leaves it in the slot.
GetKeepsSlot ==
    IF closed /\ ~has_value
    THEN /\ c_result' = [ kind |-> "closed", item |-> 0, closed |-> closed ]
         /\ UNCHANGED << has_value, value >>
    ELSE /\ c_result' = [ kind |-> "value", item |-> value[1], closed |-> closed ]
         /\ UNCHANGED << has_value, value >>

\* Lines 38-43: None when closed and empty, else the value, and the slot is cleared.
GetReturns ==
    IF closed /\ ~has_value
    THEN /\ c_result' = [ kind |-> "closed", item |-> 0, closed |-> closed ]
         /\ UNCHANGED << has_value, value >>
    ELSE /\ c_result' = [ kind |-> "value", item |-> value[1], closed |-> closed ]
         /\ value' = Nothing
         /\ has_value' = FALSE

\* A get that answers the closed sentinel when its timeout has run out.
GetTimeoutReturnsNone ==
    /\ c_result' = [ kind |-> "closed", item |-> 0, closed |-> closed ]
    /\ UNCHANGED << has_value, value >>

\* Lines 36-37: wait_for gave False; raise TimeoutError.
GetRaisesTimeout ==
    /\ c_result' = [ kind |-> "timeout", item |-> 0, closed |-> closed ]
    /\ UNCHANGED << has_value, value >>

\* Lines 33-43 with the lock held: wait_for evaluates the predicate; when it
\* holds get returns; when it fails and the timeout has run out get raises;
\* otherwise the thread waits on the condition, which releases the lock.
ConsumerWaitFor ==
    /\ c_pc = "locked"
    /\ IF GetPredicate \/ c_expired
       THEN /\ IF GetPredicate THEN GetReturns ELSE GetRaisesTimeout
            /\ returned' = Append(returned, c_result')
            /\ c_pc' = "idle"
            /\ UNCHANGED c_waited
       ELSE /\ c_pc' = "waiting"
            /\ c_waited' = TRUE
            /\ UNCHANGED << has_value, value, c_result, returned >>
    /\ Release
    /\ UNCHANGED << driverVars, libVars, closed, n_close, p_pc, p_item, c_timeout, c_expired,
                    published, published_at_close >>

\* The timeout of the wait runs out: the thread wakes without a notify.
ConsumerTimesOut ==
    /\ c_pc = "waiting"
    /\ c_timeout
    /\ c_expired' = TRUE
    /\ c_pc' = "woken"
    /\ UNCHANGED << driverVars, libVars, has_value, value, closed, n_close, lock, p_pc, p_item,
                    c_timeout, c_waited, c_result, published, returned,
                    published_at_close >>

\* The woken thread takes the lock again before wait returns.
ConsumerReacquires ==
    /\ c_pc = "woken"
    /\ Acquire("consumer")
    /\ c_pc' = "locked"
    /\ UNCHANGED << driverVars, libVars, has_value, value, closed, n_close, p_pc, p_item,
                    c_timeout, c_expired, c_waited, c_result, published, returned,
                    published_at_close >>

\* A fresh SingleSlotQueue (__init__) shared by a producer and a consumer
\* thread; the solver of this run is never started.
QueueInit ==
    /\ scenario = "queue"
    /\ block_size = 2
    /\ ciphertext = EmptyFn
    /\ dk = EmptyFn
    /\ pc = "entry"
    /\ ciphertext_blocks = EmptyFn
    /\ ciphertext_prime_blocks = EmptyFn
    /\ intermediate_blocks = EmptyFn
    /\ plaintext_blocks = EmptyFn
    /\ state_version = 0
    /\ block_index_n = 0
    /\ pad_length_k = 0
    /\ byte_index_i = 0
    /\ byte_value_g = 0
    /\ found = FALSE
    /\ exc = "none"
    /\ propagated = "none"
    /\ return_value = Nothing
    /\ CURRENT_STEP = 0
    /\ BYTES_FOUND = 0
    /\ has_value = FALSE
    /\ value = Nothing
    /\ closed = FALSE
    /\ ui_pc = "get"
    /\ ui_state = Nothing
    /\ last_probe = NoProbe
    /\ n_probes = 0
    /\ n_published = 0
    /\ complete_published = FALSE
    /\ n_close = 0
    /\ n_rejected = 0
    /\ pub_after_cancel = FALSE
    /\ ChanInit
    /\ LibInit

QueueNext ==
    \/ ProducerCallsPublish
    \/ ProducerPublishes
    \/ ProducerCallsClose
    \/ ProducerCloses
    \/ ConsumerCallsGet
    \/ ConsumerWaitFor
    \/ ConsumerTimesOut
    \/ ConsumerReacquires

QueueSpec == QueueInit /\ [][QueueNext]_vars

\* Every thread that can take a step eventually takes one (the threads are
\* scheduled by the operating system and the lock is always released).
QueueFairness ==
    /\ WF_vars(ProducerPublishes)
    /\ WF_vars(ProducerCloses)
    /\ WF_vars(ConsumerWaitFor)
    /\ WF_vars(ConsumerReacquires)

QueueLiveSpec == QueueSpec /\ QueueFairness

(* --------------------- plaintext post-processing ---------------------- *)

\* Longest joined plaintext handed to strip_plaintext_padding.
MaxPlainLen == 4

\* The literal 16 that strip_plaintext_padding compares the last byte with.
StripLimit == 16

\* Byte values of the joined plaintext: zero, pad widths, and one above the limit.
PlainSample == {0, 1, 2, 17}

queueVars == << has_value, value, closed, n_close >>

\* solve_message and the queue are not in use in the run called name.
DriverIdle(name) ==
    /\ scenario = name
    /\ block_size = 2
    /\ ciphertext = EmptyFn
    /\ dk = EmptyFn
    /\ pc = "entry"
    /\ ciphertext_blocks = EmptyFn
    /\ ciphertext_prime_blocks = EmptyFn
    /\ intermediate_blocks = EmptyFn
    /\ plaintext_blocks = EmptyFn
    /\ state_version = 0
    /\ block_index_n = 0
    /\ pad_length_k = 0
    /\ byte_index_i = 0
    /\ byte_value_g = 0
    /\ found = FALSE
    /\ exc = "none"
    /\ propagated = "none"
    /\ return_value = Nothing
    /\ CURRENT_STEP = 0
    /\ BYTES_FOUND = 0
    /\ has_value = FALSE
    /\ value = Nothing
    /\ closed = FALSE
    /\ ui_pc = "get"
    /\ ui_state = Nothing
    /\ last_probe = NoProbe
    /\ n_probes = 0
    /\ n_published = 0
    /\ complete_published = FALSE
    /\ n_close = 0
    /\ n_rejected = 0
    /\ pub_after_cancel = FALSE
    /\ ChanInit

RECURSIVE rstrip(_, _)
\* bytes.rstrip(bytes([b])): drop every trailing byte equal to b.
rstrip(bs, b) ==
    IF Len(bs) > 0 /\ bs[Len(bs)] = b
    THEN rstrip(SubSeq(bs, 1, Len(bs) - 1), b)
    ELSE bs

\* utils.strip_plaintext_padding
strip_plaintext_padding(plaintext) ==
    IF Len(plaintext) = 0
    THEN plaintext
    ELSE LET tail_value == plaintext[Len(plaintext)]
         IN  IF tail_value <= StripLimit
             THEN rstrip(plaintext, tail_value)
             ELSE plaintext

\* cli.solver line 41: plaintext = strip_plaintext_padding(plaintext)
StripPlaintextPadding ==
    /\ strip_result = Nothing
    /\ strip_result' = Some(strip_plaintext_padding(strip_arg))
    /\ UNCHANGED << driverVars, queueVars, chanVars, blockSetVars, broadcastVars, strip_arg >>

PostInit ==
    /\ DriverIdle("post")
    /\ strip_arg \in UNION { [ 1 .. len -> PlainSample ] : len \in 0 .. MaxPlainLen }
    /\ strip_result = Nothing
    /\ cipher_blocks = << >>
    /\ last_call = NoCall
    /\ BroadcastInit

PostNext == StripPlaintextPadding

PostSpec == PostInit /\ [][PostNext]_vars

\* ---------------------------------------------------------------------------
\* models/cipher_bytes.py: CipherBlockSet, a list of CipherBlock objects, each
\* a list of CipherBlockByte objects with a colour, a list of tags and a
\* placeholder flag.  Blocks and bytes are indexed from 0 in the source;
\* block idx is cipher_blocks[idx + 1] here.
\* ---------------------------------------------------------------------------

\* Longest ciphertext a CipherBlockSet is built from, in bytes.
MaxSetLen == 5

\* Number of calls made on one CipherBlockSet.
MaxCalls == 2

ByteColors == {"WHITE", "RED"}

TagNames == {"padding"}

\* Values of start_block and end_block the callers pass.
StartBlocks == 0 .. ((MaxSetLen + 1) \div 2)

EndBlocks == -1 .. ((MaxSetLen + 1) \div 2)

\* CipherBlockByte.__init__
CipherBlockByte(byte) ==
    [ byte_value |-> byte, color |-> "WHITE", tags |-> << >>, is_placeholder |-> FALSE ]

\* CipherBlock.__init__ / __parse_block_bytes over a block of n bytes.
CipherBlock(n) == [ j \in 1 .. n |-> CipherBlockByte(0) ]

\* CipherBlockSet.__parse_blocks over a ciphertext of n bytes: the complete
\* blocks, then the remaining bytes as a partial block.
parse_blocks(n, bsz) ==
    LET complete_blocks == n \div bsz
        remaining_bytes == n % bsz
        count == complete_blocks + (IF remaining_bytes > 0 THEN 1 ELSE 0)
    IN  [ i \in 1 .. count |->
            IF i <= complete_blocks THEN CipherBlock(bsz) ELSE CipherBlock(remaining_bytes) ]

Min(a, b) == IF a < b THEN a ELSE b

\* An end bound that stops before end_block instead of after it.
SliceEndExclusive(end_block) ==
    LET e1 == IF end_block = -1 THEN Len(cipher_blocks) ELSE end_block
    IN  Min(e1, Len(cipher_blocks))

\* The end of the slice the five range methods compute from end_block:
\* -1 becomes len, the value is capped at len, then incremented by one.
SliceEnd(end_block) ==
    LET e1 == IF end_block = -1 THEN Len(cipher_blocks) ELSE end_block
        e2 == Min(e1, Len(cipher_blocks))
    IN  e2 + 1

\* Indices of self.cipher_blocks[start_block:end_block] for non-negative bounds.
selected_blocks(start_block, end_block) ==
    { idx \in 0 .. (Len(cipher_blocks) - 1) :
        start_block <= idx /\ idx < SliceEnd(end_block) }

\* CipherBlock.set_color(color) with the default byte range (every byte).
BlockSetColor(block, color) ==
    [ j \in 1 .. Len(block) |-> [ block[j] EXCEPT !.color = color ] ]

\* CipherBlock.tag(tag) with the default byte range.
BlockTag(block, t) ==
    [ j \in 1 .. Len(block) |-> [ block[j] EXCEPT !.tags = Append(@, t) ] ]

\* CipherBlock.set_placeholder() with the default byte range.
BlockSetPlaceholder(block) ==
    [ j \in 1 .. Len(block) |-> [ block[j] EXCEPT !.is_placeholder = TRUE ] ]

\* CipherBlockByte.has_tag
ByteHasTag(b, t) == \E n \in 1 .. Len(b.tags) : b.tags[n] = t

\* CipherBlock.has_tag(tag) with the default byte range.
BlockHasTag(block, t) == \E j \in 1 .. Len(block) : ByteHasTag(block[j], t)

\* list.remove(tag): drop the first occurrence.
ListRemove(tags, t) ==
    LET first == CHOOSE n \in 1 .. Len(tags) :
                     tags[n] = t /\ \A m \in 1 .. (n - 1) : tags[m] # t
    IN  SubSeq(tags, 1, first - 1) \o SubSeq(tags, first + 1, Len(tags))

\* Position of the first byte of the block whose tag list lacks t (0: none).
FirstLackingByte(block, t) ==
    IF \A j \in 1 .. Len(block) : ByteHasTag(block[j], t)
    THEN 0
    ELSE CHOOSE j \in 1 .. Len(block) :
             /\ ~ByteHasTag(block[j], t)
             /\ \A m \in 1 .. (j - 1) : ByteHasTag(block[m], t)

\* CipherBlock.untag(tag): bytes are untagged in order; list.remove raises
\* ValueError at the first byte without the tag, the bytes before it stay
\* untagged.
BlockUntag(block, t) ==
    LET stop == FirstLackingByte(block, t)
    IN  [ j \in 1 .. Len(block) |->
            IF stop = 0 \/ j < stop
            THEN [ block[j] EXCEPT !.tags = ListRemove(@, t) ]
            ELSE block[j] ]

\* The record of a call on the block set: its number, the method, its block
\* range, the colour it was given (set_color only) and what it returned or
\* raised.
Call(op, start_block, end_block, color, result) ==
    [ n |-> last_call.n + 1, op |-> op, start_block |-> start_block,
      end_block |-> end_block, color |-> color, result |-> result ]

\* CipherBlockSet.set_color
set_color(color, start_block, end_block) ==
    /\ cipher_blocks' =
         [ i \in 1 .. Len(cipher_blocks) |->
             IF (i - 1) \in selected_blocks(start_block, end_block)
             THEN BlockSetColor(cipher_blocks[i], color)
             ELSE cipher_blocks[i] ]
    /\ last_call' = Call("set_color", start_block, end_block, color, "self")
    /\ UNCHANGED << driverVars, queueVars, chanVars, postVars, broadcastVars >>

\* CipherBlockSet.tag
tag(t, start_block, end_block) ==
    /\ cipher_blocks' =
         [ i \in 1 .. Len(cipher_blocks) |->
             IF (i - 1) \in selected_blocks(start_block, end_block)
             THEN BlockTag(cipher_blocks[i], t)
             ELSE cipher_blocks[i] ]
    /\ last_call' = Call("tag", start_block, end_block, "none", "self")
    /\ UNCHANGED << driverVars, queueVars, chanVars, postVars, broadcastVars >>

\* CipherBlockSet.untag: the selected blocks are untagged in order; the first
\* one with a byte that lacks the tag raises ValueError and ends the call.
untag(t, start_block, end_block) ==
    LET sel == selected_blocks(start_block, end_block)
        lacking == { idx \in sel : FirstLackingByte(cipher_blocks[idx + 1], t) # 0 }
        raises == lacking # {}
        stop == IF raises
                THEN CHOOSE idx \in lacking : \A other \in lacking : idx <= other
                ELSE Len(cipher_blocks)
    IN  /\ cipher_blocks' =
             [ i \in 1 .. Len(cipher_blocks) |->
                 IF (i - 1) \in sel /\ (i - 1) <= stop
                 THEN BlockUntag(cipher_blocks[i], t)
                 ELSE cipher_blocks[i] ]
        /\ last_call' = Call("untag", start_block, end_block, "none",
                            IF raises THEN "ValueError" ELSE "self")
        /\ UNCHANGED << driverVars, queueVars, chanVars, postVars, broadcastVars >>

\* CipherBlockSet.has_tag
has_tag(t, start_block, end_block) ==
    /\ last_call' =
         Call("has_tag", start_block, end_block, "none",
              IF \E idx \in selected_blocks(start_block, end_block) :
                     BlockHasTag(cipher_blocks[idx + 1], t)
              THEN "True" ELSE "False")
    /\ UNCHANGED << driverVars, queueVars, chanVars, postVars, broadcastVars, cipher_blocks >>

\* CipherBlockSet.set_placeholder
set_placeholder(start_block, end_block) ==
    /\ cipher_blocks' =
         [ i \in 1 .. Len(cipher_blocks) |->
             IF (i - 1) \in selected_blocks(start_block, end_block)
             THEN BlockSetPlaceholder(cipher_blocks[i])
             ELSE cipher_blocks[i] ]
    /\ last_call' = Call("set_placeholder", start_block, end_block, "none", "self")
    /\ UNCHANGED << driverVars, queueVars, chanVars, postVars, broadcastVars >>

SetColor ==
    /\ last_call.n < MaxCalls
    /\ \E c \in ByteColors, s \in StartBlocks, e \in EndBlocks : set_color(c, s, e)

Tag ==
    /\ last_call.n < MaxCalls
    /\ \E t \in TagNames, s \in StartBlocks, e \in EndBlocks : tag(t, s, e)

Untag ==
    /\ last_call.n < MaxCalls
    /\ \E t \in TagNames, s \in StartBlocks, e \in EndBlocks : untag(t, s, e)

HasTag ==
    /\ last_call.n < MaxCalls
    /\ \E t \in TagNames, s \in StartBlocks, e \in EndBlocks : has_tag(t, s, e)

SetPlaceholder ==
    /\ last_call.n < MaxCalls
    /\ \E s \in StartBlocks, e \in EndBlocks : set_placeholder(s, e)

\* A CipherBlockSet freshly built from a ciphertext of 0 .. MaxSetLen bytes.
BlockSetInit ==
    /\ DriverIdle("blockset")
    /\ strip_arg = << >>
    /\ strip_result = Nothing
    /\ \E n \in 0 .. MaxSetLen : cipher_blocks = parse_blocks(n, block_size)
    /\ last_call = NoCall
    /\ BroadcastInit

BlockSetNext ==
    \/ SetColor
    \/ Tag
    \/ Untag
    \/ HasTag
    \/ SetPlaceholder

BlockSetSpec == BlockSetInit /\ [][BlockSetNext]_vars

\* ---------------------------------------------------------------------------
\* core/broadcast_latest.py: BroadcastLatest, a latest-value channel with a
\* version counter, and its Subscribers, each with the version it has seen.
\* Every method body runs under the lock of self._cond, which a waiting
\* subscriber gives up, so each critical section is one step.
\* ---------------------------------------------------------------------------

\* Most publish calls on one channel.
MaxBroadcast == 2

\* Most next() calls of one subscriber.
MaxNext == 2

\* The items published.
BroadcastItems == {"a", "b"}

\* BroadcastLatest.publish
BroadcastPublish ==
    /\ b_version < MaxBroadcast
    /\ \E item \in BroadcastItems : b_value' = Some(item)
    /\ b_version' = b_version + 1
    /\ UNCHANGED << b_closed, sub_pc, sub_timeout, sub_seen, sub_result, sub_calls >>
    /\ UNCHANGED << driverVars, queueVars, chanVars, postVars, blockSetVars >>

\* BroadcastLatest.close (a close of a closed channel changes nothing)
BroadcastClose ==
    /\ ~b_closed
    /\ b_closed' = TRUE
    /\ UNCHANGED << b_value, b_version, sub_pc, sub_timeout, sub_seen, sub_result,
                    sub_calls >>
    /\ UNCHANGED << driverVars, queueVars, chanVars, postVars, blockSetVars >>

\* BroadcastLatest.subscribe / Subscriber.__init__: the subscriber has seen
\* version 0.
Subscribe(s) ==
    /\ sub_pc[s] = "unsubscribed"
    /\ sub_pc' = [ sub_pc EXCEPT ![s] = "idle" ]
    /\ sub_seen' = [ sub_seen EXCEPT ![s] = 0 ]
    /\ UNCHANGED << b_value, b_version, b_closed, sub_timeout, sub_result, sub_calls >>
    /\ UNCHANGED << driverVars, queueVars, chanVars, postVars, blockSetVars >>

\* Subscriber.next(timeout) is called: the subscriber takes the lock and
\* enters wait_for.
SubscriberCallsNext(s) ==
    /\ sub_pc[s] = "idle"
    /\ sub_calls[s] < MaxNext
    /\ sub_pc' = [ sub_pc EXCEPT ![s] = "waiting" ]
    /\ \E t \in BOOLEAN : sub_timeout' = [ sub_timeout EXCEPT ![s] = t ]
    /\ sub_calls' = [ sub_calls EXCEPT ![s] = @ + 1 ]
    /\ UNCHANGED << b_value, b_version, b_closed, sub_seen, sub_result >>
    /\ UNCHANGED << driverVars, queueVars, chanVars, postVars, blockSetVars >>

\* The predicate of wait_for in Subscriber.next.
NextPredicate(s) == b_closed \/ b_version > sub_seen[s]

\* A next() that marks the version as seen for every subscriber.
NextConsumesForAll(s) ==
    /\ sub_pc[s] = "waiting"
    /\ NextPredicate(s)
    /\ sub_pc' = [ sub_pc EXCEPT ![s] = "idle" ]
    /\ IF b_closed
       THEN /\ sub_result' = [ sub_result EXCEPT ![s] =
                                 [ kind |-> "None", version |-> 0, item |-> "none" ] ]
            /\ UNCHANGED sub_seen
       ELSE /\ sub_seen' = [ o \in SubscriberIds |-> b_version ]
            /\ sub_result' = [ sub_result EXCEPT ![s] =
                                 [ kind |-> "value", version |-> b_version,
                                   item |-> b_value[1] ] ]
    /\ UNCHANGED << b_value, b_version, b_closed, sub_timeout, sub_calls >>
    /\ UNCHANGED << driverVars, queueVars, chanVars, postVars, blockSetVars >>

\* Subscriber.next, lines 42-45, once wait_for has returned True: None when
\* the channel is closed, else the value, with its version marked as seen.
SubscriberNextReturns(s) ==
    /\ sub_pc[s] = "waiting"
    /\ NextPredicate(s)
    /\ sub_pc' = [ sub_pc EXCEPT ![s] = "idle" ]
    /\ IF b_closed
       THEN /\ sub_result' = [ sub_result EXCEPT ![s] =
                                 [ kind |-> "None", version |-> 0, item |-> "none" ] ]
            /\ UNCHANGED sub_seen
       ELSE /\ sub_seen' = [ sub_seen EXCEPT ![s] = b_version ]
            /\ sub_result' = [ sub_result EXCEPT ![s] =
                                 [ kind |-> "value", version |-> b_version,
                                   item |-> b_value[1] ] ]
    /\ UNCHANGED << b_value, b_version, b_closed, sub_timeout, sub_calls >>
    /\ UNCHANGED << driverVars, queueVars, chanVars, postVars, blockSetVars >>

\* Subscriber.next, lines 42-43, when wait_for ran into its timeout with the
\* predicate still false: None.
SubscriberNextTimesOut(s) ==
    /\ sub_pc[s] = "waiting"
    /\ sub_timeout[s]
    /\ ~NextPredicate(s)
    /\ sub_pc' = [ sub_pc EXCEPT ![s] = "idle" ]
    /\ sub_result' = [ sub_result EXCEPT ![s] =
                         [ kind |-> "None", version |-> 0, item |-> "none" ] ]
    /\ UNCHANGED << b_value, b_version, b_closed, sub_timeout, sub_seen, sub_calls >>
    /\ UNCHANGED << driverVars, queueVars, chanVars, postVars, blockSetVars >>

SubscribeSome == \E s \in SubscriberIds : Subscribe(s)

CallsNext == \E s \in SubscriberIds : SubscriberCallsNext(s)

NextReturns == \E s \in SubscriberIds : SubscriberNextReturns(s)

NextTimesOut == \E s \in SubscriberIds : SubscriberNextTimesOut(s)

\* A fresh BroadcastLatest channel.
BroadcastLatestInit ==
    /\ DriverIdle("broadcast")
    /\ strip_arg = << >>
    /\ strip_result = Nothing
    /\ cipher_blocks = << >>
    /\ last_call = NoCall
    /\ BroadcastInit

BroadcastNext ==
    \/ BroadcastPublish
    \/ BroadcastClose
    \/ SubscribeSome
    \/ CallsNext
    \/ NextReturns
    \/ NextTimesOut

BroadcastSpec == BroadcastLatestInit /\ [][BroadcastNext]_vars

Next ==
    \/ SolverEntry
    \/ SolverBeginBlock
    \/ SolverOrigProbe
    \/ SolverPrepTail
    \/ SolverGuess
    \/ SolverExhausted
    \/ SolverProbe
    \/ SolverConfirm
    \/ SolverFinal
    \/ SolverExcept
    \/ SolverFinally
    \/ UiGet
    \/ UiRender
    \/ UiRenderFails
    \/ UiInterrupt

Spec == Init /\ [][Next]_vars

\* One step of ui_loop.
UiStep == UiGet \/ UiRender \/ UiRenderFails

\* The solver thread and the renderer loop are both scheduled: each takes a
\* step when it has one to take.
Fairness == WF_vars(SolverStep) /\ WF_vars(UiStep)

FairSpec == Spec /\ Fairness

(* ------------------------------ claims -------------------------------- *)

\* The run's submit function answers true exactly when the padding is valid.
PureOracle == scenario \in {"solo", "ui"}

\* A block-aligned ciphertext of at least two blocks.
ValidInput == Aligned /\ block_count >= 2

TargetBlocks == 1 .. block_count - 1

BytePositions == 0 .. block_size - 1

AllSolved ==
    /\ DOMAIN intermediate_blocks = 0 .. block_count - 1
    /\ \A n \in TargetBlocks : \A i \in BytePositions :
         /\ intermediate_blocks[n][i] # None
         /\ plaintext_blocks[n][i] # None

NoneSolved ==
    \A n \in DOMAIN intermediate_blocks : \A i \in BytePositions :
      /\ intermediate_blocks[n][i] = None
      /\ plaintext_blocks[n][i] = None

\* C1: with a pure PKCS#7 oracle and a block-aligned ciphertext of N >= 2 blocks,
\* solve_message ends with all (N-1)*B bytes solved and never in the
\* 'no valid guess' error, whatever the byte values are.
C1_SolvesEveryMessage ==
    (Done /\ PureOracle /\ ValidInput) => (exc # "RuntimeError" /\ AllSolved)

\* C2: with a pure PKCS#7 oracle every recorded byte is correct: a written
\* I_n[i] is D(C_n)[i] and a written P_n[i] is D(C_n)[i] XOR C_{n-1}[i]; a false
\* positive is never recorded.
C2_RecordedBytesCorrect ==
    PureOracle =>
      \A n \in DOMAIN intermediate_blocks : \A i \in BytePositions :
        /\ (intermediate_blocks[n][i] = None) = (plaintext_blocks[n][i] = None)
        /\ intermediate_blocks[n][i] # None =>
             /\ n \in TargetBlocks
             /\ intermediate_blocks[n][i] = dk[n][i]
             /\ plaintext_blocks[n][i] = Xor(dk[n][i], ciphertext_blocks[n - 1][i])

\* A pure-oracle run over two target blocks has recorded every byte after the
\* confirmation probe rejected a false positive.
C2_Witness ==
    /\ scenario = "solo"
    /\ Done
    /\ block_count = 3
    /\ AllSolved
    /\ n_rejected > 0

\* C3: on success solve_message returns the sequence [P_1, ..., P_{N-1}] of
\* recovered plaintext blocks to its caller.
C3_ReturnsPlaintextBlocks ==
    (Done /\ exc = "none") =>
      return_value = Some([ n \in TargetBlocks |-> plaintext_blocks[n] ])

\* C4: on every exit path of solve_message the channel is closed when
\* solve_message returns.
C4_ClosedOnEveryExit == Done => closed

\* solve_message has returned after the guess loop ran out.
C4_Witness == Done /\ exc = "RuntimeError" /\ closed /\ ui_pc # "interrupted"

\* C5: every error met inside solve_message reaches the caller as an error; a
\* failed run never returns normally.
C5_ErrorsReachCaller == (Done /\ exc # "none") => propagated # "none"

\* C6: when no guess in 0..255 is confirmed at some (n, k) the solver raises
\* there and, from then on, issues no probe, records no byte, publishes no
\* complete snapshot and closes the channel; with an oracle that always answers
\* false the run ends at (n = 1, k = 1) after all 256 guesses, no byte recorded.
C6_ExhaustionStops ==
    /\ [][ (pc = "guess" /\ byte_value_g = GuessCount /\ pc' # pc)
             => exc' = "RuntimeError" ]_vars
    /\ [][ exc = "RuntimeError"
             => /\ n_probes' = n_probes
                /\ intermediate_blocks' = intermediate_blocks
                /\ plaintext_blocks' = plaintext_blocks
                /\ ~complete_published'
                /\ pc' \in {"except", "finally", "done"}
                /\ pc' = "done" => closed' ]_vars
    /\ [] ( (Done /\ scenario = "reject" /\ ValidInput)
             => /\ exc = "RuntimeError"
                /\ block_index_n = 1
                /\ pad_length_k = 1
                /\ byte_value_g = GuessCount
                /\ CURRENT_STEP = GuessCount
                /\ NoneSolved )

\* The always-false oracle has exhausted the guesses and the run has ended.
C6_Witness ==
    /\ Done
    /\ scenario = "reject"
    /\ exc = "RuntimeError"
    /\ byte_value_g = GuessCount
    /\ closed

\* C7: a ciphertext that is not block-aligned or has fewer than 2 blocks makes
\* solve_message fail with the invalid-input error at entry, before any probe
\* and any snapshot.
C7_InvalidInputFailsAtEntry ==
    (Done /\ ~ValidInput) =>
      /\ exc = "AssertionError"
      /\ propagated = exc
      /\ n_probes = 0
      /\ n_published = 0

\* C8: an exception raised by the oracle in any probe is fatal: the raising
\* probe is not taken for a false reply, and after it no probe is issued, no
\* byte recorded, no complete snapshot published, and the channel is closed.
C8_OracleErrorIsFatal ==
    /\ [][ (n_probes' # n_probes /\ last_probe'.reply = "raise")
             => /\ exc' = "OracleError"
                /\ pc' = "except"
                /\ byte_value_g' = byte_value_g ]_vars
    /\ [][ exc = "OracleError"
             => /\ n_probes' = n_probes
                /\ intermediate_blocks' = intermediate_blocks
                /\ plaintext_blocks' = plaintext_blocks
                /\ ~complete_published'
                /\ pc' \in {"except", "finally", "done"}
                /\ pc' = "done" => closed' ]_vars

\* A run has ended after the oracle raised in a confirmation probe.
C8_Witness ==
    /\ Done
    /\ exc = "OracleError"
    /\ last_probe.kind = "confirm"
    /\ last_probe.reply = "raise"
    /\ closed

\* C9: a failed or timed-out request makes submit_guess report an error; it
\* never returns false for it.
C9_TransportFailureRaises ==
    last_probe.event \in {"failed", "timeout"} => last_probe.reply = "raise"

\* C10: once the renderer side has closed the channel, the solver stops at its
\* next publish: after that publish it issues no probe and records no byte.
C10_StopsAtNextPublish ==
    [][ pub_after_cancel
          => /\ n_probes' = n_probes
             /\ intermediate_blocks' = intermediate_blocks
             /\ plaintext_blocks' = plaintext_blocks ]_vars

\* The driver's run is over: solve_message has returned and ui_loop has been left.
DriverDone == scenario = "ui" /\ Done /\ ui_pc \in {"exited", "interrupted"}

\* C11: in every run of the driver close() is invoked on the channel exactly
\* once, on every path: completion, solver error and user interrupt.
C11_CloseInvokedOnce == DriverDone => n_close = 1

\* The items the gets have returned so far, in order.
ReturnedItems ==
    LET IsValue(r) == r.kind = "value"
        vals == SelectSeq(returned, IsValue)
    IN  [ j \in DOMAIN vals |-> vals[j].item ]

\* C12: no item published after close is ever returned by get: after close a
\* get returns at most the item pending at the close, and once a get has
\* returned the closed sentinel no later get returns a value.
C12_NothingAfterClose ==
    /\ \A j \in DOMAIN returned :
         (returned[j].kind = "value" /\ published_at_close # -1)
           => returned[j].item <= published_at_close
    /\ \A j, m \in DOMAIN returned :
         (j < m /\ returned[j].kind = "closed") => returned[m].kind # "value"

\* A get is returning in this step.
GetReturning == c_pc = "locked" /\ c_pc' = "idle"

\* C13: the slot holds at most one pending value; a get that returns a value
\* returns the most recently published one and leaves the slot empty.
C13_LatestWins ==
    /\ [] (Len(value) <= 1 /\ (has_value <=> value # Nothing))
    /\ [][ (GetReturning /\ c_result'.kind = "value")
             => /\ has_value
                /\ c_result'.item = published[Len(published)]
                /\ ~has_value'
                /\ value' = Nothing ]_vars

\* A get has returned the third item after the first two were overwritten unread.
C13_Witness ==
    /\ scenario = "queue"
    /\ c_pc = "idle"
    /\ c_result.kind = "value"
    /\ c_result.item = 3
    /\ Len(returned) = 1
    /\ ~has_value

C15_ReturnedIsSubsequence ==
    /\ \A j \in DOMAIN ReturnedItems :
         \E m \in DOMAIN published : published[m] = ReturnedItems[j]
    /\ \A j, m \in DOMAIN ReturnedItems :
         j < m =>
           \E a, b \in DOMAIN published :
             /\ a < b
             /\ published[a] = ReturnedItems[j]
             /\ published[b] = ReturnedItems[m]

\* Two gets have returned two of three published values, one dropped between.
C15_Witness ==
    /\ scenario = "queue"
    /\ Len(published) = 3
    /\ ReturnedItems = << 1, 3 >>

\* C16: a get without timeout does not return while the slot is empty and the
\* channel is open, and no wake-up is lost: a consumer inside get returns once
\* a value is in the slot or the channel is closed.
C16_BlocksWithoutLostWakeup ==
    /\ [][ (GetReturning /\ ~c_timeout) => (has_value \/ closed) ]_vars
    /\ [][ (c_pc = "waiting" /\ ~c_timeout /\ c_pc' # c_pc)
             => (has_value' \/ closed') ]_vars
    /\ ((c_pc # "idle" /\ (has_value \/ closed)) ~> (c_pc = "idle"))

\* A get without timeout that had to wait has returned a published value.
C16_Witness ==
    /\ scenario = "queue"
    /\ c_pc = "idle"
    /\ ~c_timeout
    /\ c_waited
    /\ c_result.kind = "value"

\* C17: a get whose timeout runs out while the slot is empty and the channel
\* is open fails with the timeout error, not the closed sentinel, and leaves
\* slot and closed flag as they were; a get on a closed and empty channel
\* returns the sentinel and raises nothing.
C17_TimeoutIsNotClosure ==
    /\ [][ (c_pc = "locked" /\ c_expired /\ ~has_value /\ ~closed /\ c_pc' # c_pc)
             => /\ c_pc' = "idle"
                /\ c_result'.kind = "timeout"
                /\ UNCHANGED << has_value, value, closed >> ]_vars
    /\ [][ (GetReturning /\ c_result'.kind = "timeout")
             => (c_timeout /\ c_expired /\ ~has_value /\ ~closed) ]_vars
    /\ [][ (GetReturning /\ closed /\ ~has_value)
             => c_result'.kind = "closed" ]_vars

\* A get with a timeout has failed with the timeout error on an open, empty channel.
C17_Witness ==
    /\ scenario = "queue"
    /\ c_pc = "idle"
    /\ c_result.kind = "timeout"
    /\ ~closed
    /\ ~has_value

\* C18: publish completes in every channel state without waiting for a get:
\* until solve_message has returned its thread always has a step to take,
\* whatever the consumer has or has not read.
C18_PublishNeverBlocks == pc # "done" => ENABLED SolverStep

\* solve_message has solved a message and returned though nothing was ever read
\* from the channel: every publish after the first found the slot full.
C18_Witness ==
    /\ scenario = "solo"
    /\ Done
    /\ exc = "none"
    /\ has_value
    /\ n_published > 2
    /\ closed

\* C19: a published snapshot is a copy by value: what the renderer reads from a
\* snapshot it holds is the solver state at the publish, and no later write of
\* the solver shows through it.
C19_SnapshotIsCopy ==
    [][ (ui_state # Nothing /\ ui_state' = ui_state)
          => RenderedView(ui_state[1], intermediate_blocks', plaintext_blocks')
               = RenderedView(ui_state[1], intermediate_blocks, plaintext_blocks) ]_vars

TailPositions(k) == block_size - (k - 1) .. block_size - 1

C22_TailDecryptsToK ==
    /\ pc \in {"guess", "probe", "confirm"} =>
         \A j \in TailPositions(pad_length_k) :
           /\ intermediate_blocks[block_index_n][j] # None
           /\ Xor(ciphertext_prime_blocks[block_index_n - 1][j],
                  intermediate_blocks[block_index_n][j]) = pad_length_k
    /\ (PureOracle /\ last_probe.kind = "primary" /\ pc \in {"guess", "confirm"}) =>
         \A j \in TailPositions(last_probe.k) :
           CbcPlain(last_probe.prev, last_probe.target)[j] = last_probe.k

\* A primary probe of the widest pad width has been sent: all other positions are tail.
C22_Witness ==
    /\ scenario = "solo"
    /\ pc = "confirm"
    /\ last_probe.kind = "primary"
    /\ pad_length_k = block_size
    /\ block_size = 3

\* C23: a confirmation probe has the target block of the primary probe that
\* produced the hit, its previous block differs from the primary probe's at
\* index f = B-k-1 only, by XOR 0x01, and the working copy is left unchanged.
C23_ConfirmationDiffersAtFlipOnly ==
    [][ (n_probes' # n_probes /\ last_probe'.kind = "confirm")
          => /\ last_probe.kind = "primary"
             /\ last_probe.reply = "true"
             /\ pad_length_k < block_size
             /\ last_probe'.target = last_probe.target
             /\ DOMAIN last_probe'.prev = DOMAIN last_probe.prev
             /\ \A j \in DOMAIN last_probe.prev :
                  last_probe'.prev[j] =
                    IF j = block_size - pad_length_k - 1
                    THEN Xor(last_probe.prev[j], 1)
                    ELSE last_probe.prev[j]
             /\ ciphertext_prime_blocks' = ciphertext_prime_blocks ]_vars

\* A confirmation probe at pad width 2 of a three-byte block has been answered true.
C23_Witness ==
    /\ scenario = "solo"
    /\ block_size = 3
    /\ last_probe.kind = "confirm"
    /\ last_probe.k = 2
    /\ last_probe.reply = "true"

\* The guess loop passes over its current guess without submitting it.
GuessSkipped == pc = "guess" /\ pc' = "guess" /\ byte_value_g' = byte_value_g + 1

\* C24: every skipped guess occurs at pad width 1 and equals the original
\* previous-block byte C_{n-1}[i]; at every width k >= 2 each guess the loop
\* reaches is submitted.
C24_SkipOnlyOriginalAtWidthOne ==
    /\ [][ GuessSkipped
             => /\ pad_length_k = 1
                /\ byte_value_g = ciphertext_blocks[block_index_n - 1][byte_index_i] ]_vars
    /\ [][ (pc = "guess" /\ pad_length_k >= 2 /\ byte_value_g < GuessCount /\ pc' # pc)
             => /\ pc' = "probe"
                /\ byte_value_g' = byte_value_g ]_vars

\* The first guess of block 1 has just been skipped.
C24_Witness ==
    /\ pc = "guess"
    /\ block_index_n = 1
    /\ pad_length_k = 1
    /\ byte_value_g = 1
    /\ CURRENT_STEP = 1
    /\ n_probes = 1

\* C25: at pad width 1 the guess equal to the original byte C_{n-1}[B-1] is
\* skipped for every value of that byte: no primary probe at k = 1 carries
\* the original byte at position B-1.
C25_OriginalSkippedAtWidthOne ==
    (last_probe.kind = "primary" /\ last_probe.k = 1) =>
      last_probe.prev[block_size - 1]
        # ciphertext_blocks[last_probe.n - 1][block_size - 1]

\* C30: a hit whose confirmation probe is answered false is rejected: no byte
\* is recorded, the pad width stays and the search goes on with g+1; a byte is
\* recorded only after the primary and the confirmation probe were both true.
C30_FalsePositiveRejected ==
    /\ [][ (n_probes' # n_probes /\ last_probe'.kind = "confirm"
              /\ last_probe'.reply = "false")
             => /\ intermediate_blocks' = intermediate_blocks
                /\ plaintext_blocks' = plaintext_blocks
                /\ BYTES_FOUND' = BYTES_FOUND
                /\ pad_length_k' = pad_length_k
                /\ block_index_n' = block_index_n
                /\ byte_value_g' = byte_value_g + 1
                /\ pc' = "guess" ]_vars
    /\ [][ intermediate_blocks' # intermediate_blocks /\ pc = "confirm"
             => /\ last_probe.kind = "primary"
                /\ last_probe.reply = "true"
                /\ pad_length_k < block_size
                     => (n_probes' # n_probes /\ last_probe'.kind = "confirm"
                           /\ last_probe'.reply = "true") ]_vars

\* The confirmation probe has just rejected a hit and the search goes on.
C30_Witness ==
    /\ scenario = "solo"
    /\ pc = "guess"
    /\ last_probe.kind = "confirm"
    /\ last_probe.reply = "false"
    /\ intermediate_blocks[block_index_n][byte_index_i] = None

\* C26: strip_plaintext_padding removes exactly the PKCS#7 padding: the last p
\* bytes when the last byte p is in 1..B, and nothing otherwise.
C26_StripsExactlyPadding ==
    strip_result # Nothing =>
      LET len == Len(strip_arg)
          p == strip_arg[len]
      IN  strip_result[1] =
            IF len > 0 /\ 1 <= p /\ p <= StripLimit /\ p <= len
            THEN SubSeq(strip_arg, 1, len - p)
            ELSE strip_arg

\* The renderer loop has been left: by the sentinel, an interrupt or an error.
UiLeft == ui_pc \in {"exited", "interrupted", "crashed"}

\* C27: ui_loop returns exactly when get returns the closed sentinel, and the
\* composition of solve_message and ui_loop is deadlock-free: under fair
\* scheduling solve_message returns and ui_loop is left, after rendering at
\* most the one value that was pending when the solver closed the channel.
C27_BothSidesTerminate ==
    /\ [](ui_pc = "exited" => Done)
    /\ [][ ui_pc' = "exited" => (ui_pc = "get" /\ closed /\ ~has_value) ]_vars
    /\ [][ (ui_pc = "get" /\ closed /\ ~has_value /\ ui_pc' # ui_pc)
             => ui_pc' \in {"exited", "interrupted"} ]_vars
    /\ [][ Done => (has_value' => has_value) ]_vars
    /\ [][ (Done /\ ui_pc = "get" /\ ui_pc' = "render") => ~has_value' ]_vars
    /\ ((scenario = "ui") ~> (Done /\ UiLeft))

\* ui_loop has returned on the sentinel after a run of solve_message that failed.
C27_Witness ==
    /\ scenario = "ui"
    /\ Done
    /\ exc # "none"
    /\ ui_pc = "exited"
    /\ n_close = 1

\* C28: a failure of the renderer does not fail the run: the channel stays
\* open until the solver closes it, and the driver ends with the solver's
\* result, not with the renderer's error.
C28_RendererCrashAbsorbed ==
    /\ (ui_pc = "crashed" /\ closed) => Done
    /\ (ui_pc = "crashed" /\ Done) => DriverOutcome = "solver_result"

\* Block idx lies in the inclusive range start_block .. end_block, cut at the
\* last block; end_block = -1 stands for the last block.
InBlockRange(idx, start_block, end_block) ==
    /\ start_block <= idx
    /\ idx <= (IF end_block = -1 \/ end_block > Len(cipher_blocks) - 1
               THEN Len(cipher_blocks) - 1
               ELSE end_block)

\* Every block outside the inclusive range is as it was.
OutsideUntouched(start_block, end_block) ==
    /\ Len(cipher_blocks') = Len(cipher_blocks)
    /\ \A idx \in 0 .. (Len(cipher_blocks) - 1) :
         ~InBlockRange(idx, start_block, end_block)
             => cipher_blocks'[idx + 1] = cipher_blocks[idx + 1]

\* Every byte of every block inside the inclusive range satisfies Changed(old, new).
InsideChanged(start_block, end_block, Changed(_, _)) ==
    \A idx \in 0 .. (Len(cipher_blocks) - 1) :
        InBlockRange(idx, start_block, end_block)
            => /\ Len(cipher_blocks'[idx + 1]) = Len(cipher_blocks[idx + 1])
               /\ \A j \in 1 .. Len(cipher_blocks[idx + 1]) :
                    Changed(cipher_blocks[idx + 1][j], cipher_blocks'[idx + 1][j])

\* C29: set_color(c, s, e) with s >= 0 and e >= 0 or e = -1 changes the colour
\* of every byte of exactly the blocks s <= idx <= min(e, L-1) (through the
\* last block for e = -1, none when s > e) and leaves every other block as it
\* was; tag, set_placeholder, untag and has_tag act on the same inclusive range.
C29_InclusiveBlockRange ==
    [][ LET s == last_call'.start_block
            e == last_call'.end_block
            c == last_call'.color
        IN  /\ set_color(c, s, e) =>
                 /\ OutsideUntouched(s, e)
                 /\ InsideChanged(s, e, LAMBDA old, new : new = [ old EXCEPT !.color = c ])
            /\ \A t \in TagNames :
                 /\ tag(t, s, e) =>
                      /\ OutsideUntouched(s, e)
                      /\ InsideChanged(s, e,
                           LAMBDA old, new : new = [ old EXCEPT !.tags = Append(@, t) ])
                 /\ untag(t, s, e) =>
                      /\ OutsideUntouched(s, e)
                      /\ (last_call'.result = "self") <=>
                           (\A idx \in 0 .. (Len(cipher_blocks) - 1) :
                              InBlockRange(idx, s, e) =>
                                \A j \in 1 .. Len(cipher_blocks[idx + 1]) :
                                    ByteHasTag(cipher_blocks[idx + 1][j], t))
                      /\ (last_call'.result = "self") =>
                           InsideChanged(s, e,
                             LAMBDA old, new : Len(new.tags) = Len(old.tags) - 1)
                 /\ has_tag(t, s, e) =>
                      (last_call'.result = "True") <=>
                        (\E idx \in 0 .. (Len(cipher_blocks) - 1) :
                           /\ InBlockRange(idx, s, e)
                           /\ BlockHasTag(cipher_blocks[idx + 1], t))
            /\ set_placeholder(s, e) =>
                 /\ OutsideUntouched(s, e)
                 /\ InsideChanged(s, e,
                      LAMBDA old, new : new = [ old EXCEPT !.is_placeholder = TRUE ])
      ]_vars

\* A set of three blocks after set_color(RED, 1, 1): the middle block is red,
\* its neighbours are not.
C29_Witness ==
    /\ scenario = "blockset"
    /\ last_call.op = "set_color"
    /\ last_call.start_block = 1
    /\ last_call.end_block = 1
    /\ Len(cipher_blocks) = 3
    /\ \A j \in 1 .. Len(cipher_blocks[2]) : cipher_blocks[2][j].color = "RED"
    /\ \A j \in 1 .. Len(cipher_blocks[1]) : cipher_blocks[1][j].color = "WHITE"
    /\ \A j \in 1 .. Len(cipher_blocks[3]) : cipher_blocks[3][j].color = "WHITE"

\* C31: at pad width k = B no confirmation probe is sent: the step that
\* handles a hit at width B calls the oracle no further and records the byte,
\* and no probe of width B is a confirmation probe.
C31_FullWidthHitAccepted ==
    /\ [](last_probe.kind = "confirm" => last_probe.k < block_size)
    /\ [][ (pc = "confirm" /\ pc' # pc /\ pad_length_k = block_size)
             => /\ n_probes' = n_probes
                /\ found'
                /\ exc' = "none"
                /\ intermediate_blocks'[block_index_n][0] =
                     Xor(byte_value_g, block_size)
                /\ last_probe.kind = "primary"
                /\ last_probe.reply = "true" ]_vars

\* The byte of index 0 of a block has just been recorded after a primary
\* probe of width B that the oracle answered with true.
C31_Witness ==
    /\ pc \in {"block", "final"}
    /\ found
    /\ pad_length_k = block_size
    /\ last_probe.kind = "primary"
    /\ last_probe.k = block_size
    /\ last_probe.reply = "true"
    /\ intermediate_blocks[last_probe.n][0] # None

\* The snapshot s describes the guess the solver is about to submit.
DescribesGuess(s) ==
    /\ ~s.complete
    /\ s.block_index_n = block_index_n
    /\ s.pad_length_k = pad_length_k
    /\ s.byte_index_i = block_size - pad_length_k
    /\ s.byte_value_g = byte_value_g
    /\ s.ciphertext_prime[block_index_n - 1] = ciphertext_prime_blocks[block_index_n - 1]
    /\ s.ciphertext_prime[block_index_n - 1][s.byte_index_i] = byte_value_g

\* C32: every primary probe is preceded by the publish of a snapshot that
\* describes it: the solver comes to a primary probe only through a publish
\* of a snapshot with the block n, the byte index B-k, the trial g, the pad
\* width k and the working previous block with g written at B-k; nothing of
\* that changes before the probe, and the probe submits that previous block.
C32_ProbePrecededBySnapshot ==
    /\ [][ (pc' = "probe" /\ pc # "probe")
             => /\ n_published' = n_published + 1
                /\ n_probes' = n_probes
                /\ has_value'
                /\ DescribesGuess(value[1])' ]_vars
    /\ [][ (pc = "probe" /\ pc' = "probe")
             => UNCHANGED << ciphertext_prime_blocks, block_index_n, pad_length_k,
                             byte_value_g, byte_index_i, n_published, n_probes >> ]_vars
    /\ [][ (n_probes' # n_probes /\ last_probe'.kind = "primary")
             => /\ pc = "probe"
                /\ n_published' = n_published
                /\ last_probe'.prev = ciphertext_prime_blocks[block_index_n - 1]
                /\ last_probe'.target = ciphertext_blocks[block_index_n]
                /\ last_probe'.n = block_index_n
                /\ last_probe'.k = pad_length_k
                /\ last_probe'.g = byte_value_g ]_vars

\* A primary probe of pad width 2 has been answered and the snapshot that was
\* published before it, still in the slot, carries its previous block.
C32_Witness ==
    /\ last_probe.kind = "primary"
    /\ last_probe.k = 2
    /\ pc \in {"guess", "confirm"}
    /\ has_value
    /\ value[1].pad_length_k = 2
    /\ value[1].byte_value_g = last_probe.g
    /\ value[1].block_index_n = last_probe.n
    /\ value[1].ciphertext_prime[last_probe.n - 1] = last_probe.prev

\* A byte has just been committed and the solver has not gone on yet: it is
\* about to rewrite the tail for the next pad width, to start the next block
\* or to build the final snapshot.
ByteDone ==
    /\ found
    /\ \/ pc = "tail" /\ pad_length_k > 1
       \/ pc \in {"block", "final"}

\* C33: every solved byte is followed by a publish on entering ByteDone(k):
\* the first step the solver takes after committing a byte publishes a
\* snapshot, before the tail is rewritten for width k+1.
C33_PublishOnByteDone ==
    [][ (ByteDone /\ pc' # pc)
          => /\ n_published' = n_published + 1
             /\ ciphertext_prime_blocks' = ciphertext_prime_blocks ]_vars

\* C34: a snapshot with complete = true is published at most once per run,
\* only after every byte of every block 1..N-1 is solved; it is the last
\* publish of the run and solve_message closes the channel only after it; a
\* run that ends in an error publishes no snapshot with complete = true.
C34_CompleteOnceAtEnd ==
    /\ [][ (has_value' /\ value' # value /\ value[1]'.complete)
             => /\ ~complete_published
                /\ complete_published'
                /\ pc = "final"
                /\ pc' = "finally"
                /\ AllSolved'
                /\ exc' = "none"
                /\ n_close' = n_close ]_vars
    /\ [][ (complete_published' /\ ~complete_published)
             => (has_value' /\ value[1]'.complete) ]_vars
    /\ [][ complete_published
             => (n_published' = n_published /\ complete_published') ]_vars
    /\ [](exc # "none" => ~complete_published)
    /\ []((Done /\ exc = "none") => complete_published)

\* A run over three blocks has published its complete snapshot, with every
\* byte of both target blocks solved, and has then closed the channel.
C34_Witness ==
    /\ scenario = "solo"
    /\ Done
    /\ block_count = 3
    /\ complete_published
    /\ has_value
    /\ value[1].complete
    /\ value[1].state_version = n_published
    /\ closed
    /\ AllSolved

\* The solver is at work on a target block.
AtWork == pc \in {"block", "orig", "tail", "guess", "probe", "confirm"}

\* C35: block C_0 (the IV) is never a target: every probe has a block of
\* index n >= 1 as its target, the block the solver works on has index >= 1,
\* and the intermediate and plaintext slots of block 0 are unsolved in every
\* reachable state, the one with the complete snapshot published included.
C35_IVNeverTarget ==
    /\ last_probe.kind # "none"
         => /\ last_probe.n >= 1
            /\ last_probe.n <= block_count - 1
            /\ last_probe.target = ciphertext_blocks[last_probe.n]
    /\ AtWork => block_index_n >= 1
    /\ 0 \in DOMAIN intermediate_blocks
         => \A i \in BytePositions :
              /\ intermediate_blocks[0][i] = None
              /\ plaintext_blocks[0][i] = None

\* The run has solved every target block and published the complete
\* snapshot, and block 0 is still unsolved.
C35_Witness ==
    /\ Done
    /\ complete_published
    /\ AllSolved
    /\ last_probe.n = block_count - 1
    /\ \A i \in BytePositions :
         intermediate_blocks[0][i] = None /\ plaintext_blocks[0][i] = None

\* C36: when the solver starts target block n, the working previous block
\* C'_{n-1} equals the original C_{n-1} byte for byte: the writes made while
\* blocks 1..n-1 were solved never reach the working copy of block n-1 or of
\* a later block, the original pair is what the first probe of the block
\* submits, and the original ciphertext blocks are never modified.
C36_WorkingCopyStartsAsOriginal ==
    /\ pc \in {"block", "orig"}
         => ciphertext_prime_blocks[block_index_n - 1]
              = ciphertext_blocks[block_index_n - 1]
    /\ AtWork
         => \A m \in block_index_n .. block_count - 1 :
              ciphertext_prime_blocks[m] = ciphertext_blocks[m]
    /\ last_probe.kind = "orig"
         => /\ last_probe.prev = ciphertext_blocks[last_probe.n - 1]
            /\ last_probe.target = ciphertext_blocks[last_probe.n]
    /\ ciphertext_blocks # EmptyFn
         => ciphertext_blocks = SplitBlocks(ciphertext, block_size)

\* The solver starts block 2: the working copy of block 0 carries the writes
\* made for block 1, the working copy of block 1 is the original block 1.
C36_Witness ==
    /\ pc = "block"
    /\ block_index_n = 2
    /\ ciphertext_prime_blocks[0] # ciphertext_blocks[0]
    /\ ciphertext_prime_blocks[1] = ciphertext_blocks[1]

\* Byte i of block m is solved: its intermediate and its plaintext are set.
Solved(m, i) == intermediate_blocks[m][i] # None /\ plaintext_blocks[m][i] # None

\* Byte i of block m is unsolved: neither is set.
Unsolved(m, i) == intermediate_blocks[m][i] = None /\ plaintext_blocks[m][i] = None

\* C37: bytes are solved strictly right-to-left and blocks strictly in
\* increasing order: in every reachable state the solved positions of the
\* block n being worked on form a suffix of the block, every block m with
\* 1 <= m < n is fully solved and every block m > n is fully unsolved.
C37_RightToLeftInOrder ==
    (intermediate_blocks # EmptyFn /\ block_index_n >= 1)
      => /\ \A m \in TargetBlocks : \A i \in BytePositions :
              Solved(m, i) \/ Unsolved(m, i)
         /\ \A i \in BytePositions :
              Solved(block_index_n, i)
                => \A j \in BytePositions : j > i => Solved(block_index_n, j)
         /\ \A m \in 1 .. block_index_n - 1 : \A i \in BytePositions : Solved(m, i)
         /\ \A m \in block_index_n + 1 .. block_count - 1 :
              \A i \in BytePositions : Unsolved(m, i)
         /\ pc \in {"guess", "probe", "confirm"}
              => \A i \in BytePositions :
                   Solved(block_index_n, i) <=> i \in TailPositions(pad_length_k)

\* The solver guesses at the first byte of the second target block: the last
\* byte of that block is solved, the first is not, and the first target block
\* is fully solved.
C37_Witness ==
    /\ block_index_n = 2
    /\ pc = "probe"
    /\ pad_length_k = 2
    /\ Solved(2, block_size - 1)
    /\ Unsolved(2, 0)
    /\ \A i \in BytePositions : Solved(1, i)

\* C38: the reply to the original-pair probe is not used for logic: whether
\* the oracle answers true or false, the step leaves the solver at the tail
\* rewrite of pad width 1 of the same block with its data, its counters and
\* the channel as they were, so that runs that differ in that reply only go
\* on from the same state: same later probes, same bytes, same snapshots.
C38_OrigReplyUnused ==
    [][ (pc = "orig" /\ pc' # pc /\ last_probe'.reply \in {"true", "false"})
          => /\ last_probe'.kind = "orig"
             /\ pc' = "tail"
             /\ exc' = "none"
             /\ n_probes' = n_probes + 1
             /\ UNCHANGED << solverData, state_version, block_index_n, pad_length_k,
                             byte_index_i, byte_value_g, found, propagated,
                             return_value, CURRENT_STEP, BYTES_FOUND, n_published,
                             complete_published, n_rejected, pub_after_cancel,
                             has_value, value, closed >> ]_vars

\* The probe of an original pair with valid padding has been answered false
\* (the request failed), and the solver is at the tail rewrite all the same.
C38_Witness ==
    /\ scenario = "flaky"
    /\ pc = "tail"
    /\ last_probe.kind = "orig"
    /\ last_probe.reply = "false"
    /\ OracleValid(last_probe.prev, last_probe.target)

\* C39: intermediate and plaintext bytes are write-once: a byte that has been
\* recorded is the same after every step of the run, whichever step it is
\* (tail rewrite, guess, probe, confirmation, next block, error exit).
C39_WriteOnce ==
    [][ intermediate_blocks # EmptyFn
          => /\ DOMAIN intermediate_blocks' = DOMAIN intermediate_blocks
             /\ DOMAIN plaintext_blocks' = DOMAIN plaintext_blocks
             /\ \A m \in DOMAIN intermediate_blocks : \A i \in BytePositions :
                  /\ intermediate_blocks[m][i] # None
                       => intermediate_blocks'[m][i] = intermediate_blocks[m][i]
                  /\ plaintext_blocks[m][i] # None
                       => plaintext_blocks'[m][i] = plaintext_blocks[m][i] ]_vars

\* A run that ended in an error after it had recorded bytes: the last byte of
\* block 1 is still there.
C39_Witness ==
    /\ Done
    /\ exc # "none"
    /\ BYTES_FOUND >= 1
    /\ Solved(1, block_size - 1)

\* Subscriber s comes back from a next() in this step.
NextReturning(s) == sub_pc[s] = "waiting" /\ sub_pc'[s] = "idle"

\* C40: each Subscriber of a BroadcastLatest receives the latest value
\* independently of the others: a next() of one subscriber changes neither the
\* channel nor what another subscriber has seen; a next() returns a value
\* only when the channel is open and its version is newer than the last one
\* that subscriber returned, and marks it as seen; a subscriber that has not
\* seen the current version gets it whatever the others did; and once the
\* channel is closed every next() returns None.
C40_IndependentSubscribers ==
    /\ [][ \A s \in SubscriberIds :
             NextReturning(s)
               => /\ UNCHANGED << b_value, b_version, b_closed >>
                  /\ \A o \in SubscriberIds \ {s} :
                       /\ sub_seen'[o] = sub_seen[o]
                       /\ sub_result'[o] = sub_result[o]
                       /\ sub_pc'[o] = sub_pc[o]
                  /\ IF sub_result'[s].kind = "value"
                     THEN /\ ~b_closed
                          /\ b_version > sub_seen[s]
                          /\ sub_result'[s].version = b_version
                          /\ sub_result'[s].item = b_value[1]
                          /\ sub_seen'[s] = b_version
                     ELSE /\ sub_result'[s].kind = "None"
                          /\ sub_seen'[s] = sub_seen[s]
                          /\ b_closed \/ (sub_timeout[s] /\ b_version = sub_seen[s])
                  /\ b_closed => sub_result'[s].kind = "None" ]_vars
    /\ [][ \A s \in SubscriberIds :
             (sub_seen'[s] # sub_seen[s]) => NextReturning(s) ]_vars
    /\ [][ b_closed => b_closed' ]_vars
    /\ [](\A s \in SubscriberIds :
            (sub_pc[s] = "waiting" /\ ~b_closed /\ b_version > sub_seen[s])
              => ENABLED (SubscriberNextReturns(s) /\ sub_result'[s].kind = "value"
                          /\ sub_result'[s].version = b_version))

\* Both subscribers have received the same publication, the second of the
\* channel.
C40_Witness ==
    /\ scenario = "broadcast"
    /\ b_version = 2
    /\ \A s \in SubscriberIds :
         /\ sub_result[s].kind = "value"
         /\ sub_result[s].version = 2
         /\ sub_seen[s] = 2

====
